---- MODULE Spec2Model ----
(***************************************************************************)
(* A model of the request-processing core of arocapi: plugin registration  *)
(* (app.ts), the content-delivery routes (/file/:id, /entity/:id/rocrate)  *)
(* and the transformation pipeline behind /entity/:id, /entities, /files   *)
(* and /search, with request validation and the app-level error handler.   *)
(*                                                                         *)
(* The specifications share the variables below; each one leaves the       *)
(* variables of the other areas at their initial value:                    *)
(*   SpecApp       registration of the plugin and the serving after it     *)
(*   SpecFile      one HEAD/GET request on a download endpoint             *)
(*   SpecPipe      one request that runs the transformer pipeline          *)
(*   SpecIngest    a list request while ingestion changes the store        *)
(*   SpecQuery     the compilation of one search or list request           *)
(*   SpecTransform resolveEntityReferences and baseEntityTransformer       *)
(*   SpecConc      several requests handled at the same time               *)
(***************************************************************************)
EXTENDS Integers, Sequences, FiniteSets, TLC

VARIABLES
    \* ---- the record store (read through the prisma client) ----
    entities,    \* the stored Entity records
    files,       \* the stored File records
    ingested,    \* number of changes external ingestion has made to the store
    \* ---- registration (app.ts) ----
    opts,        \* which options the embedding application supplied
    appPc,       \* position of the registration: init, connecting, pinging, ready, failed
    regError,    \* message of the error that made registration fail
    regCalls,    \* setup steps performed so far, in order
    routes,      \* routes registered on the instance
    served,      \* number of requests the instance has routed to a handler
    \* ---- content delivery (routes/file.ts, routes/crate.ts) ----
    fReq,        \* the request being handled
    fPc,         \* idle, lookup, handler, done
    fLookup,     \* how findFirst settled: pending, record, null, rejected
    fRecord,     \* the record findFirst returned
    fResult,     \* what the content handler returned
    fCalls,      \* collaborator calls made on behalf of the request
    fStream,     \* lifetime of the request's byte stream: none, open, sent, closed
    fReply,      \* the response
    \* ---- the transformer pipeline (routes/entity.ts, entities.ts, files.ts, search.ts) ----
    pReq,        \* the request being handled
    pPc,         \* idle, the await the handler is suspended at, or done
    pRows,       \* the records (or search hits) the handler got back, in order
    pTasks,      \* one per-record pipeline per row
    pTotal,      \* the count the handler read
    pCalls,      \* store and search-engine operations issued, in order
    pReply,      \* the response
    pLog,        \* what the request wrote to fastify.log, in order
    \* ---- the search request compiler (routes/search.ts) ----
    sParams,     \* the validated body of a POST /search request
    sBody,       \* the request the handler hands to opensearch.search
    lParams,     \* the validated query of a GET /entities or GET /files request
    lArgs,       \* the arguments the handler hands to prisma.<model>.findMany
    \* ---- the transformer functions on their own (transformers/default.ts) ----
    tBatch,      \* the batch handed to resolveEntityReferences
    tRefs,       \* what resolveEntityReferences returned and the lookups it issued
    tEntity,     \* the object handed to baseEntityTransformer
    tOnce,       \* baseEntityTransformer's output for tEntity
    tTwice,      \* baseEntityTransformer's output for tOnce
    \* ---- requests in flight at the same time, one handler activation each ----
    cReq,        \* per activation: the request object fastify created for it
    cPc,         \* per activation: idle, findMany, run, done
    cRows,       \* per activation: the records its store read returned
    cInvoked,    \* per activation: the transformer / handler invocations made, in order
    cReply       \* per activation: the response

appVars == <<opts, appPc, regError, regCalls, routes, served>>
fileVars == <<fReq, fPc, fLookup, fRecord, fResult, fCalls, fStream, fReply>>
storeVars == <<entities, files, ingested>>
pipeVars == <<pReq, pPc, pRows, pTasks, pTotal, pCalls, pReply, pLog>>
queryVars == <<sParams, sBody, lParams, lArgs>>
transVars == <<tBatch, tRefs, tEntity, tOnce, tTwice>>
concVars == <<cReq, cPc, cRows, cInvoked, cReply>>
vars == <<storeVars, appVars, fileVars, pipeVars, queryVars, transVars, concVars>>

\* what the actions of one area leave alone
appFrame == <<storeVars, fileVars, pipeVars, queryVars, transVars, concVars>>
fileFrame == <<storeVars, appVars, pipeVars, queryVars, transVars, concVars>>
pipeFrame == <<storeVars, appVars, fileVars, queryVars, transVars, concVars>>
queryFrame == <<storeVars, appVars, fileVars, pipeVars, transVars, concVars>>
transFrame == <<storeVars, appVars, fileVars, pipeVars, queryVars, concVars>>
concFrame == <<storeVars, appVars, fileVars, pipeVars, queryVars, transVars>>

(***************************************************************************)
(* Bounds                                                                  *)
(***************************************************************************)
MaxServed == 2
MaxRecords == 2      \* longest hit list the search engine answers with
NumExtras == 2       \* length of the entityTransformers / fileTransformers list
MaxFilters == 2      \* most fields a search request filters on
MaxIngest == 1       \* most changes external ingestion makes during a request
MaxBatch == 2        \* longest batch handed to resolveEntityReferences
MaxInFlight == 2     \* most requests handled at the same time

(***************************************************************************)
(* Error envelopes (utils/errors.ts)                                       *)
(***************************************************************************)
None == "<none>"
Undef == "<undefined>"
Absent == "<absent>"
Null == "<null>"

ERROR_CODES == {"VALIDATION_ERROR", "NOT_FOUND", "RATE_LIMIT_EXCEEDED", "INTERNAL_ERROR", "INVALID_REQUEST"}

createErrorResponse(code, message, details) ==
    [kind |-> "error", code |-> code, message |-> message, val |-> details]

createNotFoundError(message, entityId) ==
    createErrorResponse("NOT_FOUND", message, entityId)

createInternalError(message) ==
    createErrorResponse("INTERNAL_ERROR", message, None)

createValidationError(message, issues) ==
    createErrorResponse("VALIDATION_ERROR", message, issues)

DefaultInternalMessage == "Internal server error"

EmptyBody == [kind |-> "empty", code |-> None, message |-> None, val |-> None]
NoBody == [kind |-> "none", code |-> None, message |-> None, val |-> None]
JsonLocation(url) == [kind |-> "json", code |-> None, message |-> "location", val |-> url]
StreamBody(src) == [kind |-> "stream", code |-> None, message |-> None, val |-> src]

(***************************************************************************)
(* Registration of the plugin (app.ts)                                     *)
(***************************************************************************)
Options ==
    [prisma : BOOLEAN, opensearch : BOOLEAN, disableCors : BOOLEAN,
     accessTransformer : BOOLEAN, fileAccessTransformer : BOOLEAN,
     fileHandler : BOOLEAN, roCrateHandler : BOOLEAN]

AllOptions ==
    [prisma |-> TRUE, opensearch |-> TRUE, disableCors |-> FALSE,
     accessTransformer |-> TRUE, fileAccessTransformer |-> TRUE,
     fileHandler |-> TRUE, roCrateHandler |-> TRUE]

AllRoutes == {"entities", "entity", "files", "file", "crate", "search"}

RequiredErrors ==
    {"Prisma client is required", "OpenSearch client is required",
     "accessTransformer is required", "fileAccessTransformer is required",
     "fileHandler is required", "roCrateHandler is required"}

\* a registration that only insists on the two clients
RequiredCheck_clientsOnly(o) ==
    IF ~o.prisma THEN "Prisma client is required"
    ELSE IF ~o.opensearch THEN "OpenSearch client is required"
    ELSE None

\* the option checks at the head of app, in source order; None when all pass
RequiredCheck(o) ==
    IF ~o.prisma THEN "Prisma client is required"
    ELSE IF ~o.opensearch THEN "OpenSearch client is required"
    ELSE IF ~o.accessTransformer THEN "accessTransformer is required"
    ELSE IF ~o.fileAccessTransformer THEN "fileAccessTransformer is required"
    ELSE IF ~o.fileHandler THEN "fileHandler is required"
    ELSE IF ~o.roCrateHandler THEN "roCrateHandler is required"
    ELSE None

AppInit ==
    /\ appPc = "init"
    /\ regError = None
    /\ regCalls = <<>>
    /\ routes = {}
    /\ served = 0

\* app, up to its first await: the checks, sensible, cors, setupValidation and
\* the call of prisma.$connect() inside setupDatabase
app ==
    /\ appPc = "init"
    /\ IF RequiredCheck(opts) # None
         THEN /\ appPc' = "failed"
              /\ regError' = RequiredCheck(opts)
              /\ UNCHANGED regCalls
         ELSE /\ appPc' = "connecting"
              /\ regCalls' = regCalls \o <<"sensible">>
                                 \o (IF opts.disableCors THEN <<>> ELSE <<"cors">>)
                                 \o <<"setupValidation", "$connect">>
              /\ UNCHANGED regError
    /\ UNCHANGED <<opts, routes, served>>
    /\ UNCHANGED appFrame

\* setupDatabase after prisma.$connect() settled; on success app goes on to
\* setupSearch, which calls opensearch.ping()
setupDatabase ==
    /\ appPc = "connecting"
    /\ \E ok \in BOOLEAN :
         IF ok
           THEN /\ appPc' = "pinging"
                /\ regCalls' = regCalls \o <<"decorate prisma", "ping">>
                /\ UNCHANGED regError
           ELSE /\ appPc' = "failed"
                /\ regError' = "connect failed"
                /\ UNCHANGED regCalls
    /\ UNCHANGED <<opts, routes, served>>
    /\ UNCHANGED appFrame

\* setupSearch after opensearch.ping() settled; on success app registers the
\* six route plugins
setupSearch ==
    /\ appPc = "pinging"
    /\ \E ok \in BOOLEAN :
         IF ok
           THEN /\ appPc' = "ready"
                /\ regCalls' = regCalls \o <<"decorate opensearch", "routes">>
                /\ routes' = AllRoutes
                /\ UNCHANGED regError
           ELSE /\ appPc' = "failed"
                /\ regError' = "ping failed"
                /\ UNCHANGED <<regCalls, routes>>
    /\ UNCHANGED <<opts, served>>
    /\ UNCHANGED appFrame

\* a request is routed to one of the registered routes of a ready instance
routing ==
    /\ appPc = "ready"
    /\ served < MaxServed
    /\ \E r \in routes : served' = served + 1
    /\ UNCHANGED <<opts, appPc, regError, regCalls, routes>>
    /\ UNCHANGED appFrame

(***************************************************************************)
(* Content delivery: common parts                                          *)
(***************************************************************************)
NoHeaders ==
    [ContentType |-> None, ContentLength |-> None, ETag |-> None, LastModified |-> None,
     ContentDisposition |-> <<>>, XAccelRedirect |-> None, Location |-> None]

NoReply == [status |-> 0, headers |-> NoHeaders, body |-> NoBody]

NoRequest ==
    [route |-> None, method |-> None, id |-> None, noRedirect |-> Absent,
     disposition |-> None, filename |-> Absent]

NoMeta ==
    [defined |-> FALSE, contentType |-> Undef, hasLength |-> FALSE, contentLength |-> 0,
     etag |-> None, lastModified |-> None]

NoResult ==
    [type |-> None, url |-> None, stream |-> FALSE, path |-> None, accelPath |-> None,
     metadata |-> NoMeta]

FileIdle ==
    /\ fReq = NoRequest
    /\ fPc = "idle"
    /\ fLookup = "pending"
    /\ fRecord = [id |-> Null]
    /\ fResult = NoResult
    /\ fCalls = <<>>
    /\ fStream = "none"
    /\ fReply = NoReply

(***************************************************************************)
(* The record store                                                        *)
(***************************************************************************)
\* sample records: a collection, an object in it, and an object whose
\* memberOf names a record that has since been deleted
SampleEntities ==
    { [rocrateId |-> "c1", name |-> "Collection 1", memberOf |-> Null, rootCollection |-> Null],
      [rocrateId |-> "o1", name |-> "Object 1", memberOf |-> "c1", rootCollection |-> "c1"],
      [rocrateId |-> "o2", name |-> "Object 2", memberOf |-> "deleted", rootCollection |-> "c1"] }

SampleFiles ==
    { [fileId |-> "f1", filename |-> "test.wav", memberOf |-> "o1", rootCollection |-> "c1"],
      [fileId |-> "f2", filename |-> "other.wav", memberOf |-> "o2", rootCollection |-> "c1"] }

RequestIds == {"c1", "o1", "f1", "nonexistent"}

StoreInit ==
    /\ entities = SampleEntities
    /\ files = SampleFiles
    /\ ingested = 0

\* the records an ingestion may add
ArrivingEntities ==
    { [rocrateId |-> "n1", name |-> "New object", memberOf |-> "c1", rootCollection |-> "c1"] }
ArrivingFiles ==
    { [fileId |-> "f3", filename |-> "new.wav", memberOf |-> "n1", rootCollection |-> "c1"] }

\* the ingestion pipeline, which runs outside the core, adds or deletes a
\* record of the table a list handler reads; it is followed between the
\* handler's two store reads, findMany and count (a change before the first
\* is a different store to start from, one after the second is never read)
ingest ==
    /\ pPc = "count"
    /\ ingested < MaxIngest
    /\ ingested' = ingested + 1
    /\ \/ /\ pReq.route = "entities"
          /\ \/ \E e \in entities : entities' = entities \ {e}
             \/ \E e \in ArrivingEntities \ entities : entities' = entities \cup {e}
          /\ UNCHANGED files
       \/ /\ pReq.route = "files"
          /\ \/ \E f \in files : files' = files \ {f}
             \/ \E f \in ArrivingFiles \ files : files' = files \cup {f}
          /\ UNCHANGED entities
    /\ UNCHANGED <<appVars, fileVars, pipeVars, queryVars, transVars, concVars>>

\* the null a lookup returns when no record matches
NoEntity == [rocrateId |-> Null, name |-> Null, memberOf |-> Null, rootCollection |-> Null]
NoFile == [fileId |-> Null, filename |-> Null, memberOf |-> Null, rootCollection |-> Null]

\* prisma.entity.findFirst({where: {rocrateId: id}})
entityFindFirst(id) ==
    IF \E e \in entities : e.rocrateId = id
      THEN CHOOSE e \in entities : e.rocrateId = id
      ELSE NoEntity

\* prisma.file.findFirst({where: {fileId: id}})
fileFindFirst(id) ==
    IF \E f \in files : f.fileId = id
      THEN CHOOSE f \in files : f.fileId = id
      ELSE NoFile

(***************************************************************************)
(* Content delivery: what a handler may return                             *)
(***************************************************************************)
Metadatas ==
    {NoMeta} \cup
    [defined : {TRUE}, contentType : {"audio/wav"}, hasLength : BOOLEAN, contentLength : {17},
     etag : {None, "abc123"}, lastModified : {None, "2025-01-01"}]

WellFormed(m) == m.defined /\ m.hasLength

Result(type, url, stream, path, accelPath, metadata) ==
    [type |-> type, url |-> url, stream |-> stream, path |-> path,
     accelPath |-> accelPath, metadata |-> metadata]

\* outcomes of handler.get: a thrown exception, false, or a result object
GetResults ==
    { Result("throw", None, FALSE, None, None, NoMeta),
      Result("false", None, FALSE, None, None, NoMeta),
      Result("redirect", "https://cdn/file", FALSE, None, None, NoMeta) }
    \cup { Result("stream", None, TRUE, None, None, m) : m \in Metadatas }
    \cup { Result("file", None, FALSE, pa[1], pa[2], m) :
             pa \in {"/data/file", Undef} \X {None, "/internal/file"}, m \in Metadatas }
    \cup { Result("invalid", None, st, None, None, m) : st \in BOOLEAN, m \in Metadatas }

\* outcomes of handler.head: a thrown exception, false, or a metadata object
HeadResults ==
    { Result("throw", None, FALSE, None, None, NoMeta),
      Result("false", None, FALSE, None, None, NoMeta) }
    \cup { Result("metadata", None, FALSE, None, None, m) : m \in Metadatas \ {NoMeta} }

NoRedirectRaw == {Absent, "", "true", "false", "0"}
DispositionRaw == {Absent, "inline", "attachment"}
FilenameRaw == {Absent, "custom.wav"}

\* JavaScript Boolean(s) of a string: only the empty string is false
Boolean(s) == s # ""

\* querySchema of /file/:id: z.coerce.boolean().optional().default(false),
\* z.enum([...]).optional().default('inline'), z.string().optional()
querySchema(req) ==
    [noRedirect |-> IF req.noRedirect = Absent THEN FALSE ELSE Boolean(req.noRedirect),
     disposition |-> IF req.disposition = Absent THEN "inline" ELSE req.disposition,
     filename |-> req.filename]

\* Date.prototype.toUTCString
toUTCString(d) ==
    CASE d = "2025-01-01" -> "Wed, 01 Jan 2025 00:00:00 GMT"
      [] OTHER -> "Invalid Date"

\* setFileHeaders: the headers after the call and whether it threw part-way
setFileHeaders(h, m) ==
    IF ~m.defined THEN [headers |-> h, threw |-> TRUE]
    ELSE LET h1 == [h EXCEPT !.ContentType = m.contentType] IN
         IF ~m.hasLength THEN [headers |-> h1, threw |-> TRUE]
         ELSE LET h2 == [h1 EXCEPT !.ContentLength = ToString(m.contentLength)]
                  h3 == IF m.etag # None THEN [h2 EXCEPT !.ETag = m.etag] ELSE h2
                  h4 == IF m.lastModified # None
                          THEN [h3 EXCEPT !.LastModified = toUTCString(m.lastModified)]
                          ELSE h3
              IN [headers |-> h4, threw |-> FALSE]

Reply(status, headers, body) == [status |-> status, headers |-> headers, body |-> body]

\* what a route hands back: the reply, the fate of the byte stream, and the
\* collaborator calls it made after the handler returned
Outcome(reply, stream, calls) == [reply |-> reply, stream |-> stream, calls |-> calls]

(***************************************************************************)
(* routes/file.ts                                                          *)
(***************************************************************************)
\* the HEAD /file/:id handler after fileHandler.head settled with r
fileHeadReply(r, id) ==
    IF r.type = "throw" THEN Reply(500, NoHeaders, createInternalError(DefaultInternalMessage))
    ELSE IF r.type = "false"
      THEN Reply(404, NoHeaders, createNotFoundError("The requested file metadata was not found", id))
    ELSE LET sh == setFileHeaders(NoHeaders, r.metadata) IN
         IF sh.threw THEN Reply(500, sh.headers, createInternalError(DefaultInternalMessage))
         ELSE Reply(200, sh.headers, EmptyBody)

\* a redirect branch that never looks at noRedirect
fileRedirect_always302(result, query) ==
    Reply(302, [NoHeaders EXCEPT !.Location = result.url], EmptyBody)

\* the redirect branch of GET /file/:id
fileRedirect(result, query) ==
    IF query.noRedirect
      THEN Reply(200, NoHeaders, JsonLocation(result.url))
      ELSE Reply(302, [NoHeaders EXCEPT !.Location = result.url], EmptyBody)

\* a handler's false reported like a thrown exception
fileNotRetrieved_as500(id) ==
    Reply(500, NoHeaders, createInternalError(DefaultInternalMessage))

\* GET /file/:id when fileHandler.get returned false
fileNotRetrieved(id) ==
    Reply(404, NoHeaders, createNotFoundError("The requested file could not be retrieved", id))

\* the 'file' branch of GET /file/:id, entered with headers h already set
fileSendPath(result, h) ==
    IF result.accelPath # None
      THEN Outcome(Reply(200, [h EXCEPT !.XAccelRedirect = result.accelPath], EmptyBody),
                   "none", <<>>)
    ELSE IF result.path = Undef
      THEN Outcome(Reply(500, h, createInternalError(DefaultInternalMessage)),
                   "none", <<"createReadStream">>)
    ELSE Outcome(Reply(200, h, StreamBody(result.path)), "sent", <<"createReadStream">>)

\* the GET /file/:id handler after fileHandler.get settled with result
fileGetReply(result, req, file) ==
    LET query == querySchema(req)
        held == IF result.stream THEN "open" ELSE "none"
        internal == createInternalError(DefaultInternalMessage)
    IN
    IF result.type = "throw" THEN Outcome(Reply(500, NoHeaders, internal), "none", <<>>)
    ELSE IF result.type = "false"
      THEN Outcome(fileNotRetrieved(req.id), "none", <<>>)
    ELSE IF result.type = "redirect" THEN Outcome(fileRedirect(result, query), "none", <<>>)
    ELSE
      LET filename == IF query.filename # Absent /\ query.filename # ""
                        THEN query.filename ELSE file.filename
          sh == setFileHeaders(NoHeaders, result.metadata)
          h == [sh.headers EXCEPT !.ContentDisposition = <<query.disposition, filename>>]
      IN
      IF sh.threw THEN Outcome(Reply(500, sh.headers, internal), held, <<>>)
      ELSE IF result.type = "stream" THEN Outcome(Reply(200, h, StreamBody("handler stream")), "sent", <<>>)
      ELSE IF result.type = "file" THEN fileSendPath(result, h)
      ELSE Outcome(Reply(500, [h EXCEPT !.ContentDisposition = <<>>, !.ContentType = None,
                                        !.ContentLength = None], internal),
                   held, <<>>)

(***************************************************************************)
(* routes/crate.ts                                                         *)
(***************************************************************************)
\* the HEAD /entity/:id/rocrate handler after roCrateHandler.head settled with r
crateHeadReply(r, id) ==
    IF r.type = "throw" THEN Reply(500, NoHeaders, createInternalError(DefaultInternalMessage))
    ELSE IF r.type = "false"
      THEN Reply(404, NoHeaders,
                 createNotFoundError("The requested RO-Crate metadata was not found", id))
    ELSE LET sh == setFileHeaders(NoHeaders, r.metadata) IN
         IF sh.threw THEN Reply(500, sh.headers, createInternalError(DefaultInternalMessage))
         ELSE Reply(200, sh.headers, EmptyBody)

\* a redirect branch that reads noRedirect from the query string
crateRedirect_honoursFlag(result, req) ==
    IF req.noRedirect # Absent /\ Boolean(req.noRedirect)
      THEN Reply(200, NoHeaders, JsonLocation(result.url))
      ELSE Reply(302, [NoHeaders EXCEPT !.Location = result.url], EmptyBody)

\* the redirect branch of GET /entity/:id/rocrate: the route has no query schema
crateRedirect(result, req) ==
    Reply(302, [NoHeaders EXCEPT !.Location = result.url], EmptyBody)

\* {...result.metadata, contentType: 'application/ld+json'}
crateMetadata(m) ==
    [m EXCEPT !.defined = TRUE, !.contentType = "application/ld+json"]

\* GET /entity/:id/rocrate when roCrateHandler.get returned false
crateNotRetrieved(id) ==
    Reply(404, NoHeaders, createNotFoundError("The requested RO-Crate could not be retrieved", id))

\* a 'file' branch that sets the offload header and still opens the path
crateSendPath_alwaysOpens(result, h) ==
    LET hx == IF result.accelPath # None
                THEN [h EXCEPT !.XAccelRedirect = result.accelPath] ELSE h
    IN IF result.path = Undef
         THEN Outcome(Reply(500, hx, createInternalError(DefaultInternalMessage)),
                      "none", <<"createReadStream">>)
         ELSE Outcome(Reply(200, hx, StreamBody(result.path)), "sent", <<"createReadStream">>)

\* the 'file' branch of GET /entity/:id/rocrate, entered with headers h already set
crateSendPath(result, h) ==
    IF result.accelPath # None
      THEN Outcome(Reply(200, [h EXCEPT !.XAccelRedirect = result.accelPath], EmptyBody),
                   "none", <<>>)
    ELSE IF result.path = Undef
      THEN Outcome(Reply(500, h, createInternalError(DefaultInternalMessage)),
                   "none", <<"createReadStream">>)
    ELSE Outcome(Reply(200, h, StreamBody(result.path)), "sent", <<"createReadStream">>)

\* the GET /entity/:id/rocrate handler after roCrateHandler.get settled with result
crateGetReply(result, req) ==
    LET held == IF result.stream THEN "open" ELSE "none"
        internal == createInternalError(DefaultInternalMessage)
    IN
    IF result.type = "throw" THEN Outcome(Reply(500, NoHeaders, internal), "none", <<>>)
    ELSE IF result.type = "false"
      THEN Outcome(crateNotRetrieved(req.id), "none", <<>>)
    ELSE IF result.type = "redirect" THEN Outcome(crateRedirect(result, req), "none", <<>>)
    ELSE
      LET sh == setFileHeaders(NoHeaders, crateMetadata(result.metadata))
          h == sh.headers
      IN
      IF sh.threw THEN Outcome(Reply(500, h, internal), held, <<>>)
      ELSE IF result.type = "stream" THEN Outcome(Reply(200, h, StreamBody("handler stream")), "sent", <<>>)
      ELSE IF result.type = "file" THEN crateSendPath(result, h)
      ELSE Outcome(Reply(500, h, internal), held, <<>>)

(***************************************************************************)
(* Content delivery: the four handlers, cut at their awaits                *)
(***************************************************************************)
ContentRequests ==
    [route : {"file", "crate"}, method : {"GET", "HEAD"}, id : RequestIds,
     noRedirect : NoRedirectRaw, disposition : DispositionRaw, filename : FilenameRaw]

\* a validated request reaches its handler
receive ==
    /\ fPc = "idle"
    /\ \E req \in ContentRequests :
         /\ req.method = "HEAD" => req.disposition = Absent /\ req.filename = Absent
         /\ req.route = "crate" => req.disposition = Absent /\ req.filename = Absent
         /\ fReq' = req
    /\ fPc' = "lookup"
    /\ UNCHANGED <<fLookup, fRecord, fResult, fCalls, fStream, fReply>>
    /\ UNCHANGED fileFrame

\* HEAD and GET /file/:id up to the handler call: prisma.file.findFirst
fileLookup ==
    /\ fPc = "lookup"
    /\ fReq.route = "file"
    /\ fCalls' = Append(fCalls, "file.findFirst")
    /\ \E threw \in BOOLEAN :
         LET file == fileFindFirst(fReq.id) IN
         IF threw
           THEN /\ fReply' = Reply(500, NoHeaders, createInternalError(DefaultInternalMessage))
                /\ fPc' = "done"
                /\ fLookup' = "rejected"
                /\ UNCHANGED fRecord
         ELSE IF file.fileId = Null
           THEN /\ fReply' = Reply(404, NoHeaders,
                                   createNotFoundError("The requested file was not found", fReq.id))
                /\ fPc' = "done"
                /\ fLookup' = "null"
                /\ UNCHANGED fRecord
         ELSE /\ fLookup' = "record"
              /\ fRecord' = file
              /\ fPc' = "handler"
              /\ UNCHANGED fReply
    /\ UNCHANGED <<fReq, fResult, fStream>>
    /\ UNCHANGED fileFrame

\* HEAD and GET /entity/:id/rocrate up to the handler call: prisma.entity.findFirst
crateLookup ==
    /\ fPc = "lookup"
    /\ fReq.route = "crate"
    /\ fCalls' = Append(fCalls, "entity.findFirst")
    /\ \E threw \in BOOLEAN :
         LET entity == entityFindFirst(fReq.id) IN
         IF threw
           THEN /\ fReply' = Reply(500, NoHeaders, createInternalError(DefaultInternalMessage))
                /\ fPc' = "done"
                /\ fLookup' = "rejected"
                /\ UNCHANGED fRecord
         ELSE IF entity.rocrateId = Null
           THEN /\ fReply' = Reply(404, NoHeaders,
                                   createNotFoundError("The requested entity was not found", fReq.id))
                /\ fPc' = "done"
                /\ fLookup' = "null"
                /\ UNCHANGED fRecord
         ELSE /\ fLookup' = "record"
              /\ fRecord' = entity
              /\ fPc' = "handler"
              /\ UNCHANGED fReply
    /\ UNCHANGED <<fReq, fResult, fStream>>
    /\ UNCHANGED fileFrame

\* a HEAD that is answered by running get and dropping the content
fileHead_viaGet ==
    /\ fPc = "handler"
    /\ fReq.route = "file" /\ fReq.method = "HEAD"
    /\ \E r \in HeadResults :
         /\ fResult' = r
         /\ fReply' = fileHeadReply(r, fReq.id)
    /\ fCalls' = Append(fCalls, "get")
    /\ fPc' = "done"
    /\ UNCHANGED <<fReq, fLookup, fRecord, fStream>>
    /\ UNCHANGED fileFrame

\* HEAD /file/:id: fileHandler.head and the reply
fileHead ==
    /\ fPc = "handler"
    /\ fReq.route = "file" /\ fReq.method = "HEAD"
    /\ \E r \in HeadResults :
         /\ fResult' = r
         /\ fReply' = fileHeadReply(r, fReq.id)
    /\ fCalls' = Append(fCalls, "head")
    /\ fPc' = "done"
    /\ UNCHANGED <<fReq, fLookup, fRecord, fStream>>
    /\ UNCHANGED fileFrame

\* GET /file/:id: fileHandler.get and the reply
fileGet ==
    /\ fPc = "handler"
    /\ fReq.route = "file" /\ fReq.method = "GET"
    /\ \E result \in GetResults :
         LET out == fileGetReply(result, fReq, fRecord) IN
         /\ fResult' = result
         /\ fReply' = out.reply
         /\ fStream' = out.stream
         /\ fCalls' = Append(fCalls, "get") \o out.calls
    /\ fPc' = "done"
    /\ UNCHANGED <<fReq, fLookup, fRecord>>
    /\ UNCHANGED fileFrame

\* HEAD /entity/:id/rocrate: roCrateHandler.head and the reply
crateHead ==
    /\ fPc = "handler"
    /\ fReq.route = "crate" /\ fReq.method = "HEAD"
    /\ \E r \in HeadResults :
         /\ fResult' = r
         /\ fReply' = crateHeadReply(r, fReq.id)
    /\ fCalls' = Append(fCalls, "head")
    /\ fPc' = "done"
    /\ UNCHANGED <<fReq, fLookup, fRecord, fStream>>
    /\ UNCHANGED fileFrame

\* GET /entity/:id/rocrate: roCrateHandler.get and the reply
crateGet ==
    /\ fPc = "handler"
    /\ fReq.route = "crate" /\ fReq.method = "GET"
    /\ \E result \in GetResults :
         LET out == crateGetReply(result, fReq) IN
         /\ fResult' = result
         /\ fReply' = out.reply
         /\ fStream' = out.stream
         /\ fCalls' = Append(fCalls, "get") \o out.calls
    /\ fPc' = "done"
    /\ UNCHANGED <<fReq, fLookup, fRecord>>
    /\ UNCHANGED fileFrame

(***************************************************************************)
(* transformers/default.ts                                                 *)
(***************************************************************************)
\* a memberOf / rootCollection value: null, the raw identifier string, or a
\* resolved {id, name}
NullRef == [kind |-> "null", id |-> Null, name |-> Null]
RawRef(s) == [kind |-> "raw", id |-> s, name |-> Null]
EntityReference(id, name) == [kind |-> "ref", id |-> id, name |-> name]

\* a stored string | null column as a value
Stored(s) == IF s = Null THEN NullRef ELSE RawRef(s)

\* {...obj, [field]: v}
Spread(obj, field, v) ==
    [f \in DOMAIN obj \cup {field} |-> IF f = field THEN v ELSE obj[f]]

\* obj[f] of JavaScript: undefined for a property the object does not have
Get(obj, f) == IF f \in DOMAIN obj THEN obj[f] ELSE Undef

\* JavaScript truthiness of a string | null | undefined value
Truthy(v) == v \notin {Null, Undef, ""}

MediaObject == "http://schema.org/MediaObject"

\* the object literal `base` of baseEntityTransformer
baseObject(entity) ==
    [id |-> Get(entity, "rocrateId"),
     name |-> Get(entity, "name"),
     description |-> Get(entity, "description"),
     entityType |-> Get(entity, "entityType"),
     memberOf |-> Get(entity, "memberOf"),
     rootCollection |-> Get(entity, "rootCollection"),
     metadataLicenseId |-> Get(entity, "metadataLicenseId"),
     contentLicenseId |-> Get(entity, "contentLicenseId")]

\* the BaseEntity that baseEntityTransformer returns for an object
BaseEntity(entity) ==
    IF baseObject(entity).entityType = MediaObject /\ Truthy(Get(entity, "fileId"))
      THEN Spread(baseObject(entity), "fileId", Get(entity, "fileId"))
      ELSE baseObject(entity)

\* baseEntityTransformer on a stored record, kept to the fields the pipeline
\* follows; stages records which stages the value went through
\* (0 = base, 1 = access, 1 + k = the k-th extra transformer)
baseEntityTransformer(entity) ==
    [id |-> baseObject(entity).id, name |-> baseObject(entity).name,
     memberOf |-> Stored(baseObject(entity).memberOf),
     rootCollection |-> Stored(baseObject(entity).rootCollection),
     stages |-> <<0>>]

\* baseFileTransformer
baseFileTransformer(file) ==
    [id |-> file.fileId, filename |-> file.filename,
     memberOf |-> Stored(file.memberOf), rootCollection |-> Stored(file.rootCollection),
     stages |-> <<0>>]

SeqToSet(q) == {q[i] : i \in 1..Len(q)}

\* the refIds set resolveEntityReferences collects
refIds(es) ==
    {e.memberOf : e \in {x \in SeqToSet(es) : x.memberOf # Null}}
    \cup {e.rootCollection : e \in {x \in SeqToSet(es) : x.rootCollection # Null}}

\* a resolver that looks the references up record by record
resolveEntityReferences_perRecord(es) ==
    LET refs == {r \in entities : r.rocrateId \in refIds(es)} IN
    [map |-> [i \in {r.rocrateId : r \in refs} |->
                EntityReference(i, (CHOOSE r \in refs : r.rocrateId = i).name)],
     calls |-> [i \in 1..Len(es) |-> "entity.findMany(refs)"],
     queries |-> [i \in 1..Len(es) |-> refIds(<<es[i]>>)]]

\* resolveEntityReferences: the map it returns, the store calls it makes and
\* the `in` list of each
resolveEntityReferences(es) ==
    IF refIds(es) = {}
      THEN [map |-> [i \in {} |-> NullRef], calls |-> <<>>, queries |-> <<>>]
      ELSE LET refs == {r \in entities : r.rocrateId \in refIds(es)} IN
           [map |-> [i \in {r.rocrateId : r \in refs} |->
                       EntityReference(i, (CHOOSE r \in refs : r.rocrateId = i).name)],
            calls |-> <<"entity.findMany(refs)">>,
            queries |-> <<refIds(es)>>]

\* refMap.get(key) ?? null
MapGet(map, key) == IF key \in DOMAIN map THEN map[key] ELSE NullRef

(***************************************************************************)
(* The per-record pipeline                                                 *)
(***************************************************************************)
LastStage == 1 + NumExtras

\* what the caller's transformer of stage k returns for input v when it does
\* not throw: a superset of its input (the access stage adds the access block)
applyStage(k, v) ==
    LET w == [v EXCEPT !.stages = Append(@, k)] IN
    IF k = 1 THEN Spread(w, "access", [metadata |-> TRUE, content |-> TRUE]) ELSE w

\* a searchExtra field that a transformer of the embedding application sets
OwnExtra == [score |-> 0 - 1, highlight |-> "transformer"]

\* the values the transformer of stage k may return for input v: the last
\* extra transformer either adds a field named searchExtra of its own or not
stageOutputs(k, v) ==
    IF k = LastStage
      THEN {applyStage(k, v), Spread(applyStage(k, v), "searchExtra", OwnExtra)}
      ELSE {applyStage(k, v)}

NoHit == [rocrateId |-> Null, score |-> 0]

\* the per-record async function up to its first await: the access transformer
\* is invoked on the standard shape
startTask(standard, hit) ==
    [status |-> "running", stage |-> 1, value |-> standard,
     invoked |-> <<[stage |-> 1, input |-> standard]>>, outs |-> <<>>, hit |-> hit,
     finished |-> 0]

\* a per-hit function of /search that ended before any transformer ran
endedTask(status, hit) ==
    [status |-> status, stage |-> 0, value |-> baseEntityTransformer(NoEntity),
     invoked |-> <<>>, outs |-> <<>>, hit |-> hit, finished |-> 0]

\* a loop that hands every extra transformer the access stage's input
afterStage_stale(t, out) ==
    IF t.stage < LastStage
      THEN [t EXCEPT !.stage = @ + 1, !.value = out, !.outs = Append(@, out),
                     !.invoked = Append(@, [stage |-> t.stage + 1, input |-> t.invoked[1].input])]
      ELSE [t EXCEPT !.status = "done", !.value = out, !.outs = Append(@, out)]

\* the continuation after `await` of stage t.stage returned out:
\* `result = await transformer(result, ctx)` for the next list entry, or return
afterStage(t, out) ==
    IF t.stage < LastStage
      THEN [t EXCEPT !.stage = @ + 1, !.value = out, !.outs = Append(@, out),
                     !.invoked = Append(@, [stage |-> t.stage + 1, input |-> out])]
      ELSE [t EXCEPT !.status = "done", !.value = out, !.outs = Append(@, out)]

(***************************************************************************)
(* The store and the search engine as the routes query them                *)
(***************************************************************************)
\* the collation of the sample identifiers
IdOrder == <<"c1", "f1", "f2", "f3", "n1", "o1", "o2">>

RECURSIVE SelectInOrder(_, _, _)
\* the records of table whose key is in IdOrder, from position i on, in order
SelectInOrder(table, key, i) ==
    IF i > Len(IdOrder) THEN <<>>
    ELSE LET here == {r \in table : r[key] = IdOrder[i]} IN
         (IF here = {} THEN <<>> ELSE <<CHOOSE r \in here : TRUE>>)
         \o SelectInOrder(table, key, i + 1)

Take(q, n) == SubSeq(q, 1, IF n < Len(q) THEN n ELSE Len(q))

\* prisma.<model>.findMany({where, orderBy: id asc, skip: 0, take: limit})
findMany(table, key, limit) == Take(SelectInOrder(table, key, 1), limit)

\* prisma.<model>.count({where})
count(table) == Cardinality(table)

\* prisma.entity.findMany({where: {rocrateId: {in: ids}}})
findManyIn(ids) == {e \in entities : e.rocrateId \in ids}

HitIds == {"o1", "o2", "ghost", Undef}

RECURSIVE HitLists(_)
\* the hit lists of length n: each hit names a stored entity, an entity the
\* store no longer has ("ghost"), or carries no rocrateId
HitLists(n) ==
    IF n = 0 THEN {<<>>}
    ELSE {Append(q, [rocrateId |-> h, score |-> n]) : q \in HitLists(n - 1), h \in HitIds}

EngineResponses == UNION {HitLists(n) : n \in 0..MaxRecords}

NoPipeReply ==
    [status |-> 0, body |-> [kind |-> "none", code |-> None, message |-> None,
                             total |-> 0, items |-> <<>>]]

ErrorReply(status, err) ==
    [status |-> status, body |-> [kind |-> "error", code |-> err.code, message |-> err.message,
                                  total |-> 0, items |-> <<>>]]

OkReply(kind, total, items) ==
    [status |-> 200, body |-> [kind |-> kind, code |-> None, message |-> None,
                               total |-> total, items |-> items]]

\* the body the app-level error handler sends for an error that is not a
\* validation error: {error: 'Internal Server Error', message: err.message}
PlainReply(status, message) ==
    [status |-> status, body |-> [kind |-> "plain", code |-> None, message |-> message,
                                  total |-> 0, items |-> <<>>]]

\* the messages of the exceptions a collaborator or a transformer may throw
ExceptionTexts == {"Database connection failed", "Random"}

\* an Error as the error handler sees it: validation holds the issues of a
\* schema validation error (no issue for any other error)
Error(message, validation) == [message |-> message, validation |-> validation]

\* the handler setupValidation installs with setErrorHandler
errorHandler(error) ==
    IF error.validation # {}
      THEN ErrorReply(400, createValidationError("The request parameters are invalid",
                                                 error.validation))
      ELSE PlainReply(500, error.message)

(***************************************************************************)
(* Request schemas of the list and search routes                           *)
(***************************************************************************)
NaN == [kind |-> "nan", n |-> 0]
Integer(n) == [kind |-> "int", n |-> n]
Frac(n) == [kind |-> "frac", n |-> n]

\* Number(s) for the query-string values the requests below carry
Number(s) ==
    CASE s = "" -> Integer(0)
      [] s = "0" -> Integer(0)
      [] s = "1" -> Integer(1)
      [] s = "2" -> Integer(2)
      [] s = "1000" -> Integer(1000)
      [] s = "1001" -> Integer(1001)
      [] s = "-1" -> Integer(0 - 1)
      [] s = "1.5" -> Frac(1)
      [] OTHER -> NaN

\* the JSON value of a body token: a number literal, or (quoted) a string
JsonNumber(tok) == IF tok = "\"1\"" THEN NaN ELSE Number(tok)

\* the outcome of one field of a schema
Valid(v) == [ok |-> TRUE, v |-> v]
Invalid == [ok |-> FALSE, v |-> 0]

\* a range check that forgets the lower bound
intMinMax_noLowerBound(raw, num, lo, hi, dflt) ==
    IF raw = Absent THEN Valid(dflt)
    ELSE IF num.kind = "int" /\ num.n <= hi THEN Valid(num.n)
    ELSE Invalid

\* z.number().int().min(lo).max(hi).default(dflt) on an already numeric value
intMinMax(raw, num, lo, hi, dflt) ==
    IF raw = Absent THEN Valid(dflt)
    ELSE IF num.kind = "int" /\ num.n >= lo /\ num.n <= hi THEN Valid(num.n)
    ELSE Invalid

\* z.number().int().min(lo).default(dflt)
intMin(raw, num, lo, dflt) ==
    IF raw = Absent THEN Valid(dflt)
    ELSE IF num.kind = "int" /\ num.n >= lo THEN Valid(num.n)
    ELSE Invalid

\* z.enum(allowed).default(dflt); the parsed value is not used by the model
zEnum(raw, allowed) ==
    IF raw = Absent \/ raw \in allowed THEN Valid(0) ELSE Invalid

\* the parsed request, or the names of the fields that failed
Parsed(limit, offset, sort, order) ==
    [limit |-> limit.v,
     issues |-> {f \in {"limit", "offset", "sort", "order"} :
                   ~(CASE f = "limit" -> limit.ok [] f = "offset" -> offset.ok
                       [] f = "sort" -> sort.ok [] OTHER -> order.ok)}]

\* querySchema of routes/entities.ts (z.coerce.number: Number(value) first)
entitiesQuerySchema(q) ==
    Parsed(intMinMax(q.limit, Number(q.limit), 1, 1000, 100),
           intMin(q.offset, Number(q.offset), 0, 0),
           zEnum(q.sort, {"id", "name", "createdAt", "updatedAt"}),
           zEnum(q.order, {"asc", "desc"}))

\* querySchema of routes/files.ts
filesQuerySchema(q) ==
    Parsed(intMinMax(q.limit, Number(q.limit), 1, 1000, 100),
           intMin(q.offset, Number(q.offset), 0, 0),
           zEnum(q.sort, {"id", "filename", "createdAt", "updatedAt"}),
           zEnum(q.order, {"asc", "desc"}))

\* searchParamsSchema of routes/search.ts (z.number: no coercion)
searchParamsSchema(b) ==
    Parsed(intMinMax(b.limit, JsonNumber(b.limit), 1, 1000, 100),
           intMin(b.offset, JsonNumber(b.offset), 0, 0),
           zEnum(b.sort, {"id", "name", "createdAt", "updatedAt", "relevance"}),
           zEnum(b.order, {"asc", "desc"}))

\* the schema the route of req validates req with; a route with a params
\* schema only, or without a schema, accepts the requests below
validate(req) ==
    CASE req.route = "entities" -> entitiesQuerySchema(req)
      [] req.route = "files" -> filesQuerySchema(req)
      [] req.route = "search" -> searchParamsSchema(req)
      [] OTHER -> [limit |-> 0, issues |-> {}]

NoPipeRequest ==
    [route |-> None, id |-> None, limit |-> Absent, offset |-> Absent,
     sort |-> Absent, order |-> Absent]

PipeIdle ==
    /\ pReq = NoPipeRequest
    /\ pPc = "idle"
    /\ pRows = <<>>
    /\ pTasks = <<>>
    /\ pTotal = 0
    /\ pCalls = <<>>
    /\ pReply = NoPipeReply
    /\ pLog = <<>>

\* the values requests carry; the valid explicit ones for offset, sort and
\* order are the defaults, so every valid request asks for skip 0, id ascending
LimitRaw == {Absent, "0", "1", "2", "1000", "1001", "abc"}
OffsetRaw == {Absent, "0", "-1"}
SortRaw == {Absent, "id", "bogus"}
OrderRaw == {Absent, "asc", "sideways"}
LimitJson == {Absent, "0", "1", "2", "1000", "1001", "1.5", "\"1\""}

PipeRequests ==
    {[NoPipeRequest EXCEPT !.route = "entity", !.id = i] : i \in RequestIds \cup {"o2"}}
    \cup {[NoPipeRequest EXCEPT !.route = "error"]}
    \cup {[route |-> r, id |-> None, limit |-> l, offset |-> o, sort |-> s, order |-> d] :
            r \in {"entities", "files"}, l \in LimitRaw, o \in OffsetRaw,
            s \in SortRaw, d \in OrderRaw}
    \cup {[route |-> "search", id |-> None, limit |-> l, offset |-> o, sort |-> s, order |-> d] :
            l \in LimitJson, o \in OffsetRaw, s \in SortRaw, d \in OrderRaw}

\* a request arrives: its query or body is validated against the route's
\* schema; a validation error goes to the error handler, otherwise the
\* handler runs up to its first await
receivePipe ==
    /\ pPc = "idle"
    /\ \E req \in PipeRequests :
         /\ pReq' = req
         /\ IF validate(req).issues # {}
              THEN /\ pReply' = errorHandler(Error("validation failed", validate(req).issues))
                   /\ pPc' = "done"
              ELSE /\ pPc' = CASE req.route = "entity" -> "findFirst"
                               [] req.route = "search" -> "search"
                               [] req.route = "error" -> "handler"
                               [] OTHER -> "findMany"
                   /\ UNCHANGED pReply
    /\ UNCHANGED <<pRows, pTasks, pTotal, pCalls, pLog>>
    /\ UNCHANGED pipeFrame

\* a route the embedding application added to the instance throws: the
\* error reaches the error handler
errorRoute ==
    /\ pPc = "handler"
    /\ \E text \in ExceptionTexts :
         pReply' = errorHandler(Error(text, {}))
    /\ pPc' = "done"
    /\ UNCHANGED <<pReq, pRows, pTasks, pTotal, pCalls, pLog>>
    /\ UNCHANGED pipeFrame

\* the catch block of a route with the exception it caught
catch(message, text) ==
    /\ pLog' = Append(pLog, [level |-> "error", text |-> text])
    /\ pReply' = ErrorReply(500, createInternalError(message))
    /\ pPc' = "done"

\* the catch block of a route after a collaborator or a transformer threw
fail(message) ==
    \E text \in ExceptionTexts : catch(message, text)

(***************************************************************************)
(* routes/entity.ts                                                        *)
(***************************************************************************)
\* base, with memberOf / rootCollection folded in from refMap
standardEntity(base, refMap) ==
    [base EXCEPT
       !.memberOf = IF base.memberOf.kind # "null"
                      THEN MapGet(refMap, base.memberOf.id) ELSE NullRef,
       !.rootCollection = IF base.rootCollection.kind # "null"
                            THEN MapGet(refMap, base.rootCollection.id) ELSE NullRef]

\* a lookup that also removes the record it found
entityLookup_consumes ==
    /\ pPc = "findFirst"
    /\ pCalls' = Append(pCalls, "entity.delete")
    /\ LET entity == entityFindFirst(pReq.id) IN
       /\ entities' = entities \ {entity}
       /\ pRows' = <<entity>>
       /\ pPc' = IF entity.rocrateId = Null THEN "done" ELSE "resolve"
    /\ UNCHANGED <<pReq, pTasks, pTotal, pReply, pLog>>
    /\ UNCHANGED <<files, ingested, appVars, fileVars, queryVars, transVars, concVars>>

\* GET /entity/:id after prisma.entity.findFirst settled
entityLookup ==
    /\ pPc = "findFirst"
    /\ pCalls' = Append(pCalls, "entity.findFirst")
    /\ \E threw \in BOOLEAN :
         LET entity == entityFindFirst(pReq.id) IN
         IF threw
           THEN fail(DefaultInternalMessage) /\ UNCHANGED pRows
         ELSE IF entity.rocrateId = Null
           THEN /\ pReply' = ErrorReply(404, createNotFoundError("The requested entity was not found",
                                                                pReq.id))
                /\ pPc' = "done"
                /\ UNCHANGED <<pRows, pLog>>
         ELSE /\ pRows' = <<entity>>
              /\ pPc' = "resolve"
              /\ UNCHANGED <<pReply, pLog>>
    /\ UNCHANGED <<pReq, pTasks, pTotal>>
    /\ UNCHANGED pipeFrame

\* GET /entity/:id after resolveEntityReferences settled: the base transformer
\* runs, the references are folded in and the access transformer is invoked
entityResolve ==
    /\ pPc = "resolve"
    /\ LET res == resolveEntityReferences(pRows) IN
       /\ pCalls' = pCalls \o res.calls
       /\ \E threw \in BOOLEAN :
            IF threw /\ res.calls # <<>>
              THEN fail(DefaultInternalMessage) /\ UNCHANGED pTasks
              ELSE /\ pTasks' = <<startTask(standardEntity(baseEntityTransformer(pRows[1]), res.map),
                                            NoHit)>>
                   /\ pPc' = "run"
                   /\ UNCHANGED <<pReply, pLog>>
    /\ UNCHANGED <<pReq, pRows, pTotal>>
    /\ UNCHANGED pipeFrame

(***************************************************************************)
(* routes/entities.ts                                                      *)
(***************************************************************************)
\* GET /entities after prisma.entity.findMany settled
entitiesFindMany ==
    /\ pPc = "findMany"
    /\ pReq.route = "entities"
    /\ pCalls' = Append(pCalls, "entity.findMany")
    /\ \E threw \in BOOLEAN :
         IF threw
           THEN fail(DefaultInternalMessage) /\ UNCHANGED pRows
           ELSE /\ pRows' = findMany(entities, "rocrateId", validate(pReq).limit)
                /\ pPc' = "count"
                /\ UNCHANGED <<pReply, pLog>>
    /\ UNCHANGED <<pReq, pTasks, pTotal>>
    /\ UNCHANGED pipeFrame

\* GET /entities after prisma.entity.count settled: every record's pipeline is
\* started, in order, by the map inside Promise.all
entitiesCount ==
    /\ pPc = "count"
    /\ pReq.route = "entities"
    /\ pCalls' = Append(pCalls, "entity.count")
    /\ \E threw \in BOOLEAN :
         IF threw
           THEN fail(DefaultInternalMessage) /\ UNCHANGED <<pTotal, pTasks>>
           ELSE /\ pTotal' = count(entities)
                /\ pTasks' = [i \in 1..Len(pRows) |->
                                startTask(baseEntityTransformer(pRows[i]), NoHit)]
                /\ pPc' = "run"
                /\ UNCHANGED <<pReply, pLog>>
    /\ UNCHANGED <<pReq, pRows>>
    /\ UNCHANGED pipeFrame

(***************************************************************************)
(* routes/files.ts                                                         *)
(***************************************************************************)
\* GET /files after prisma.file.findMany settled
filesFindMany ==
    /\ pPc = "findMany"
    /\ pReq.route = "files"
    /\ pCalls' = Append(pCalls, "file.findMany")
    /\ \E threw \in BOOLEAN :
         IF threw
           THEN fail(DefaultInternalMessage) /\ UNCHANGED pRows
           ELSE /\ pRows' = findMany(files, "fileId", validate(pReq).limit)
                /\ pPc' = "count"
                /\ UNCHANGED <<pReply, pLog>>
    /\ UNCHANGED <<pReq, pTasks, pTotal>>
    /\ UNCHANGED pipeFrame

\* GET /files after prisma.file.count settled: every record's pipeline is
\* started, in order, by the map inside Promise.all
filesCount ==
    /\ pPc = "count"
    /\ pReq.route = "files"
    /\ pCalls' = Append(pCalls, "file.count")
    /\ \E threw \in BOOLEAN :
         IF threw
           THEN fail(DefaultInternalMessage) /\ UNCHANGED <<pTotal, pTasks>>
           ELSE /\ pTotal' = count(files)
                /\ pTasks' = [i \in 1..Len(pRows) |->
                                startTask(baseFileTransformer(pRows[i]), NoHit)]
                /\ pPc' = "run"
                /\ UNCHANGED <<pReply, pLog>>
    /\ UNCHANGED <<pReq, pRows>>
    /\ UNCHANGED pipeFrame

(***************************************************************************)
(* routes/search.ts                                                        *)
(***************************************************************************)
\* POST /search after opensearch.search settled: it rejected, it answered
\* without hits.hits, or it answered with at most `size` hits
searchQuery ==
    /\ pPc = "search"
    /\ pCalls' = Append(pCalls, "opensearch.search")
    /\ \E outcome \in {"rejected", "no hits data", "hits"} :
         IF outcome = "rejected"
           THEN fail("Search failed") /\ UNCHANGED <<pRows, pTotal>>
         ELSE IF outcome = "no hits data"
           THEN /\ catch("Search failed", "Invalid search response: missing hits data")
                /\ UNCHANGED <<pRows, pTotal>>
           ELSE \E hits \in EngineResponses :
                  /\ Len(hits) <= validate(pReq).limit
                  /\ pRows' = hits
                  /\ pTotal' = Len(hits)
                  /\ pPc' = "findMany"
                  /\ UNCHANGED <<pReply, pLog>>
    /\ UNCHANGED <<pReq, pTasks>>
    /\ UNCHANGED pipeFrame

\* a per-hit function that leaves out a hit without identifier
searchTask_skipsMissingId(hit, dbEntities) ==
    IF hit.rocrateId = Undef THEN endedTask("skipped", hit)
    ELSE IF ~\E e \in dbEntities : e.rocrateId = hit.rocrateId THEN endedTask("skipped", hit)
    ELSE startTask(baseEntityTransformer(CHOOSE e \in dbEntities : e.rocrateId = hit.rocrateId),
                   hit)

\* the per-hit async function of /search up to its first await
searchTask(hit, dbEntities) ==
    IF hit.rocrateId = Undef THEN endedTask("failed", hit)
    ELSE IF ~\E e \in dbEntities : e.rocrateId = hit.rocrateId THEN endedTask("skipped", hit)
    ELSE startTask(baseEntityTransformer(CHOOSE e \in dbEntities : e.rocrateId = hit.rocrateId),
                   hit)

\* per-hit functions that drop a hit without saying so
warnings_silent(hits, dbEntities, i) == <<>>

RECURSIVE warnings(_, _, _)
\* what the per-hit functions log while the map starts them, in hit order
warnings(hits, dbEntities, i) ==
    IF i > Len(hits) THEN <<>>
    ELSE (IF searchTask(hits[i], dbEntities).status = "skipped"
            THEN <<[level |-> "warn", text |-> hits[i].rocrateId]>> ELSE <<>>)
         \o warnings(hits, dbEntities, i + 1)

\* POST /search after prisma.entity.findMany settled: every hit's function is
\* started, in order, by the map inside Promise.all
searchFindMany ==
    /\ pPc = "findMany"
    /\ pReq.route = "search"
    /\ pCalls' = Append(pCalls, "entity.findMany")
    /\ \E threw \in BOOLEAN :
         IF threw
           THEN fail("Search failed") /\ UNCHANGED pTasks
           ELSE LET rocrateIds == {h.rocrateId : h \in SeqToSet(pRows)} \ {Undef}
                    dbEntities == findManyIn(rocrateIds)
                IN /\ pTasks' = [i \in 1..Len(pRows) |-> searchTask(pRows[i], dbEntities)]
                   /\ pLog' = pLog \o warnings(pRows, dbEntities, 1)
                   /\ pPc' = "run"
                   /\ UNCHANGED pReply
    /\ UNCHANGED <<pReq, pRows, pTotal>>
    /\ UNCHANGED pipeFrame

\* the entity /search returns for a hit: {...result, searchExtra: {score, highlight}}
searchEntity(t) ==
    Spread(t.value, "searchExtra", [score |-> t.hit.score, highlight |-> None])

(***************************************************************************)
(* The pipelines in flight and the end of the handler                      *)
(***************************************************************************)
TaskIds == 1..Len(pTasks)

\* what a fulfilled pipeline contributes to the array Promise.all resolves to
taskResult(t) == IF pReq.route = "search" THEN searchEntity(t) ELSE t.value

RECURSIVE Collect_byCompletion(_, _)
\* an array filled in the order in which the pipelines returned
Collect_byCompletion(ts, i) ==
    IF i > Len(ts) THEN <<>>
    ELSE LET here == {j \in 1..Len(ts) : ts[j].finished = i} IN
         (IF here = {} THEN <<>> ELSE <<taskResult(ts[CHOOSE j \in here : TRUE])>>)
         \o Collect_byCompletion(ts, i + 1)

RECURSIVE Collect(_, _)
\* the results of the tasks from position i on, in task order, nulls dropped
Collect(ts, i) ==
    IF i > Len(ts) THEN <<>>
    ELSE (IF ts[i].status = "skipped" THEN <<>> ELSE <<taskResult(ts[i])>>)
         \o Collect(ts, i + 1)

\* how many pipelines of the request have returned so far
Finished == Cardinality({j \in TaskIds : pTasks[j].finished > 0})

\* a pipeline that has just returned gets the next completion rank
ranked(t) == IF t.status = "done" THEN [t EXCEPT !.finished = Finished + 1] ELSE t

\* the transformer a record's pipeline is waiting for settles: it returned,
\* and the pipeline goes on to the next stage, or it threw
settle(i) ==
    /\ pTasks[i].status = "running"
    /\ \/ pTasks' = [pTasks EXCEPT ![i].status = "failed"]
       \/ \E out \in stageOutputs(pTasks[i].stage, pTasks[i].value) :
            pTasks' = [pTasks EXCEPT ![i] = ranked(afterStage(@, out))]
    /\ UNCHANGED <<pReq, pPc, pRows, pTotal, pCalls, pReply, pLog>>
    /\ UNCHANGED pipeFrame

\* a pipeline rejected: the handler's await throws into the catch block
reject ==
    /\ pPc = "run"
    /\ \E i \in TaskIds : pTasks[i].status = "failed"
    /\ IF \E i \in TaskIds : pTasks[i].status = "failed" /\ pTasks[i].stage = 0
         THEN catch("Search failed", "Missing rocrateId in search hit")
         ELSE fail(IF pReq.route = "search" THEN "Search failed" ELSE DefaultInternalMessage)
    /\ UNCHANGED <<pReq, pRows, pTasks, pTotal, pCalls>>
    /\ UNCHANGED pipeFrame

\* a handler that answers with whatever pipelines did return
respond_dropsFailed ==
    /\ pPc = "run"
    /\ \A i \in TaskIds : pTasks[i].status \in {"done", "skipped", "failed"}
    /\ pReply' = OkReply(pReq.route, pTotal,
                         Collect([i \in TaskIds |->
                                    IF pTasks[i].status = "failed"
                                      THEN [pTasks[i] EXCEPT !.status = "skipped"]
                                      ELSE pTasks[i]], 1))
    /\ pPc' = "done"
    /\ UNCHANGED <<pReq, pRows, pTasks, pTotal, pCalls, pLog>>
    /\ UNCHANGED pipeFrame

\* every pipeline returned: the handler returns its result
respond ==
    /\ pPc = "run"
    /\ \A i \in TaskIds : pTasks[i].status \in {"done", "skipped"}
    /\ pReply' = OkReply(pReq.route, IF pReq.route = "entity" THEN 1 ELSE pTotal,
                         Collect(pTasks, 1))
    /\ pPc' = "done"
    /\ UNCHANGED <<pReq, pRows, pTasks, pTotal, pCalls, pLog>>
    /\ UNCHANGED pipeFrame

(***************************************************************************)
(* routes/search.ts: compiling the search request                          *)
(***************************************************************************)
\* a geographic point; coordinates are in tenths of a degree
Point(lat, lng) == [lat |-> lat, lng |-> lng]

NoBox == [present |-> FALSE, topRight |-> Point(0, 0), bottomLeft |-> Point(0, 0)]
Box(topRight, bottomLeft) == [present |-> TRUE, topRight |-> topRight, bottomLeft |-> bottomLeft]

Lats == {514, 515}
Lngs == {0, 1}
BoundingBoxes ==
    {NoBox} \cup {Box(Point(a, b), Point(c, d)) : a \in Lats, b \in Lngs, c \in Lats, d \in Lngs}

\* Object.entries(filters): the filter fields in insertion order
FilterEntries ==
    <<[field |-> "entityType", values |-> <<"http://pcdm.org/models#Collection">>],
      [field |-> "inLanguage", values |-> <<"en", "fr">>],
      [field |-> "mediaType", values |-> <<>>],
      [field |-> "communicationMode", values |-> <<"Song">>]>>

NoFilters == [present |-> FALSE, entries |-> <<>>]
Filters ==
    {NoFilters} \cup {[present |-> TRUE, entries |-> SubSeq(FilterEntries, 1, n)] : n \in 0..MaxFilters}

\* the bodies searchParamsSchema lets through, defaults filled in
SearchParams ==
    [searchType : {"basic", "advanced"}, query : {"test"}, filters : Filters,
     boundingBox : BoundingBoxes, geohashPrecision : {0, 5, 12},
     limit : {100}, offset : {0},
     sort : {"relevance", "id", "name", "createdAt", "updatedAt"}, order : {"asc", "desc"}]

NoSearchParams ==
    [searchType |-> None, query |-> None, filters |-> NoFilters, boundingBox |-> NoBox,
     geohashPrecision |-> 0, limit |-> 0, offset |-> 0, sort |-> None, order |-> None]

NoSearchBody == [index |-> None]

\* the queries querySchema of routes/entities.ts lets through; entityType is
\* the list the transform yields, empty when the parameter is missing
EntitiesParams ==
    [route : {"entities"}, memberOf : {Undef, "c1"}, entityType : {<<>>, <<"Collection">>},
     limit : {1, 100}, offset : {0, 1},
     sort : {"id", "name", "createdAt", "updatedAt"}, order : {"asc", "desc"}]

\* the queries querySchema of routes/files.ts lets through
FilesParams ==
    [route : {"files"}, memberOf : {Undef, "c1"}, entityType : {<<>>},
     limit : {1, 100}, offset : {0, 1},
     sort : {"id", "filename", "createdAt", "updatedAt"}, order : {"asc", "desc"}]

NoListParams ==
    [route |-> None, memberOf |-> Undef, entityType |-> <<>>, limit |-> 0, offset |-> 0,
     sort |-> None, order |-> None]

NoListArgs == [model |-> None]

QueryIdle ==
    /\ sParams = NoSearchParams
    /\ sBody = NoSearchBody
    /\ lParams = NoListParams
    /\ lArgs = NoListArgs

SearchFields == <<"name^2", "description">>

\* the corners the engine is given: the box's own corners, unconverted
corners_asGiven(boundingBox) ==
    [top_left |-> [lat |-> boundingBox.topRight.lat, lon |-> boundingBox.topRight.lng],
     bottom_right |-> [lat |-> boundingBox.bottomLeft.lat, lon |-> boundingBox.bottomLeft.lng]]

\* the top_left / bottom_right corners compiled from a topRight / bottomLeft box
corners(boundingBox) ==
    [top_left |-> [lat |-> boundingBox.topRight.lat, lon |-> boundingBox.bottomLeft.lng],
     bottom_right |-> [lat |-> boundingBox.bottomLeft.lat, lon |-> boundingBox.topRight.lng]]

\* the clause that scores documents against the query text
textClause(searchType, query) ==
    IF searchType = "basic"
      THEN [multi_match |-> [query |-> query, fields |-> SearchFields,
                             type |-> "best_fields", fuzziness |-> "AUTO"]]
      ELSE [query_string |-> [query |-> query, fields |-> SearchFields,
                              default_operator |-> "AND"]]

\* one terms clause per entry of filters, then the bounding box clause
filterClauses(filters, boundingBox) ==
    (IF filters.present
       THEN [k \in 1..Len(filters.entries) |->
               [terms |-> [field |-> filters.entries[k].field,
                           values |-> filters.entries[k].values]]]
       ELSE <<>>)
    \o (IF boundingBox.present
          THEN <<[geo_bounding_box |-> [location |-> corners(boundingBox)]]>>
          ELSE <<>>)

\* a compiler that lets the filters take part in scoring
buildQuery_filtersInMust(searchType, query, filters, boundingBox) ==
    [bool |-> [must |-> <<textClause(searchType, query)>> \o filterClauses(filters, boundingBox),
               filter |-> <<>>]]

buildQuery(searchType, query, filters, boundingBox) ==
    [bool |-> [must |-> <<textClause(searchType, query)>>,
               filter |-> filterClauses(filters, boundingBox)]]

AggregatedFields == {"inLanguage", "mediaType", "communicationMode", "entityType"}

buildAggregations(geohashPrecision, boundingBox) ==
    [terms |-> [f \in AggregatedFields |-> [field |-> f, size |-> 20]],
     geohash_grid |->
        IF geohashPrecision # 0 /\ boundingBox.present
          THEN [present |-> TRUE, field |-> "location", precision |-> geohashPrecision,
                bounds |-> corners(boundingBox)]
          ELSE [present |-> FALSE, field |-> None, precision |-> 0,
                bounds |-> corners(NoBox)]]

\* buildSort; no entry stands for the undefined it returns for 'relevance'
buildSort(sort, order) ==
    IF sort = "relevance" THEN <<>>
    ELSE LET sortField == IF sort = "id" THEN "rocrateId" ELSE sort IN
         IF sortField = "name" THEN <<[field |-> "name.keyword", order |-> order]>>
         ELSE <<[field |-> sortField, order |-> order]>>

\* the handler of POST /search builds the request it sends to the engine
opensearchQuery ==
    /\ sParams # NoSearchParams
    /\ sBody = NoSearchBody
    /\ sBody' = [index |-> "entities",
                 query |-> buildQuery(sParams.searchType, sParams.query, sParams.filters,
                                      sParams.boundingBox),
                 aggs |-> buildAggregations(sParams.geohashPrecision, sParams.boundingBox),
                 highlight |-> {"name", "description"},
                 sort |-> buildSort(sParams.sort, sParams.order),
                 from |-> sParams.offset,
                 size |-> sParams.limit]
    /\ UNCHANGED <<sParams, lParams, lArgs>>
    /\ UNCHANGED queryFrame

\* the where clause of the list routes: memberOf when given, and on /entities
\* entityType when the list is not empty
where(q) ==
    [memberOf |-> q.memberOf,
     entityType |-> IF q.route = "entities" /\ Len(q.entityType) > 0 THEN q.entityType ELSE <<>>]

\* sortField of routes/entities.ts
entitiesSortField(sort) == IF sort = "id" THEN "rocrateId" ELSE sort

\* a files route that kept the entities' mapping
filesSortField_asEntities(sort) == IF sort = "id" THEN "rocrateId" ELSE sort

\* sortField of routes/files.ts
filesSortField(sort) == IF sort = "id" THEN "fileId" ELSE sort

\* the handler of GET /entities or GET /files builds the arguments of findMany
findManyArgs ==
    /\ lParams # NoListParams
    /\ lArgs = NoListArgs
    /\ lArgs' = [model |-> IF lParams.route = "entities" THEN "entity" ELSE "file",
                 where |-> where(lParams),
                 orderBy |-> [field |-> IF lParams.route = "entities"
                                          THEN entitiesSortField(lParams.sort)
                                          ELSE filesSortField(lParams.sort),
                              order |-> lParams.order],
                 skip |-> lParams.offset,
                 take |-> lParams.limit]
    /\ UNCHANGED <<sParams, sBody, lParams>>
    /\ UNCHANGED queryFrame

(***************************************************************************)
(* transformers/default.ts: the functions called on their own              *)
(***************************************************************************)
\* the values of a memberOf / rootCollection column; the loader stores null
\* for a missing or empty reference (entity.memberOf || null)
RefValues == {Null, "c1", "o1", "deleted"}

\* the batches handed to resolveEntityReferences
Batches ==
    UNION {[1..n -> [memberOf : RefValues, rootCollection : RefValues]] : n \in 0..MaxBatch}

\* Entity records as the Prisma client returns them
EntityObjects ==
    [id : {1}, rocrateId : {"o1"}, name : {"Object 1"}, description : {"An object"},
     entityType : {"http://pcdm.org/models#Object", MediaObject},
     fileId : {Null, "f1"}, memberOf : {Null, "c1"}, rootCollection : {Null, "c1"},
     metadataLicenseId : {"cc-by"}, contentLicenseId : {"cc-by-nc"}]

NoObject == [absent |-> TRUE]
NoRefs == [pending |-> TRUE]

TransIdle ==
    /\ tBatch = <<>>
    /\ tRefs = NoRefs
    /\ tEntity = NoObject
    /\ tOnce = NoObject
    /\ tTwice = NoObject

\* a call of resolveEntityReferences(tBatch, prisma)
resolve ==
    /\ tEntity = NoObject
    /\ tRefs = NoRefs
    /\ tRefs' = resolveEntityReferences(tBatch)
    /\ UNCHANGED <<tBatch, tEntity, tOnce, tTwice>>
    /\ UNCHANGED transFrame

\* a call of baseEntityTransformer on a stored record
transform ==
    /\ tEntity # NoObject
    /\ tOnce = NoObject
    /\ tOnce' = BaseEntity(tEntity)
    /\ UNCHANGED <<tBatch, tRefs, tEntity, tTwice>>
    /\ UNCHANGED transFrame

\* a call of baseEntityTransformer on the output of the previous call
transformAgain ==
    /\ tOnce # NoObject
    /\ tTwice = NoObject
    /\ tTwice' = BaseEntity(tOnce)
    /\ UNCHANGED <<tBatch, tRefs, tEntity, tOnce>>
    /\ UNCHANGED transFrame

(***************************************************************************)
(* Requests in flight at the same time. fastify calls the route's async    *)
(* handler once per request; `request`, `reply` and every const of the     *)
(* handler body belong to that activation, and activations interleave at   *)
(* their awaits. The routes keep nothing in module or plugin scope that a  *)
(* handler writes.                                                         *)
(***************************************************************************)
Activations == 1..MaxInFlight

\* a request object: its route and the caller it authenticates
ConcRequests == [route : {"entities", "files", "file"}, user : {"alice", "bob"}]
NoConcRequest == [route |-> None, user |-> None]
NoConcReply == [status |-> 0, items |-> <<>>]

\* the default of the limit query parameter of /entities and /files
DefaultLimit == 100

ConcIdle ==
    /\ cReq = [a \in Activations |-> NoConcRequest]
    /\ cPc = [a \in Activations |-> "idle"]
    /\ cRows = [a \in Activations |-> <<>>]
    /\ cInvoked = [a \in Activations |-> <<>>]
    /\ cReply = [a \in Activations |-> NoConcReply]

\* the store read of the route of request q
rowsOf(q) ==
    CASE q.route = "entities" -> findMany(entities, "rocrateId", DefaultLimit)
      [] q.route = "files" -> findMany(files, "fileId", DefaultLimit)
      [] OTHER -> <<fileFindFirst("f1")>>

\* what the embedding application's access transformer or content handler
\* computes for a record from the context it is given
computedFor(record, ctx) ==
    [record |-> record, grantedTo |-> ctx.request.user]

\* a context taken from the first activation instead of the caller's own
context_ofFirst(a) == [request |-> cReq[1], fastify |-> "fastify"]

\* the context {request, fastify} an invocation of activation a is given:
\* `request` is the parameter of that activation of the handler
context(a) == [request |-> cReq[a], fastify |-> "fastify"]

\* express hands (req, res) to fastify.routing, which starts an activation of
\* the route handler with the request's own request object
arrive(a) ==
    /\ cPc[a] = "idle"
    /\ \E q \in ConcRequests : cReq' = [cReq EXCEPT ![a] = q]
    /\ cPc' = [cPc EXCEPT ![a] = "findMany"]
    /\ UNCHANGED <<cRows, cInvoked, cReply>>
    /\ UNCHANGED concFrame

\* the store read of activation a settles
read(a) ==
    /\ cPc[a] = "findMany"
    /\ cRows' = [cRows EXCEPT ![a] = rowsOf(cReq[a])]
    /\ cPc' = [cPc EXCEPT ![a] = "run"]
    /\ UNCHANGED <<cReq, cInvoked, cReply>>
    /\ UNCHANGED concFrame

\* activation a invokes the access transformer (or the content handler) on
\* its next record
invoke(a) ==
    /\ cPc[a] = "run"
    /\ Len(cInvoked[a]) < Len(cRows[a])
    /\ cInvoked' = [cInvoked EXCEPT ![a] =
                      Append(@, [record |-> cRows[a][Len(@) + 1], ctx |-> context(a)])]
    /\ UNCHANGED <<cReq, cPc, cRows, cReply>>
    /\ UNCHANGED concFrame

\* activation a returns its response
answer(a) ==
    /\ cPc[a] = "run"
    /\ Len(cInvoked[a]) = Len(cRows[a])
    /\ cReply' = [cReply EXCEPT ![a] =
                    [status |-> 200,
                     items |-> [k \in 1..Len(cInvoked[a]) |->
                                  computedFor(cInvoked[a][k].record, cInvoked[a][k].ctx)]]]
    /\ cPc' = [cPc EXCEPT ![a] = "done"]
    /\ UNCHANGED <<cReq, cRows, cInvoked>>
    /\ UNCHANGED concFrame

(***************************************************************************)
(* Specifications                                                          *)
(***************************************************************************)
InitApp ==
    /\ opts \in Options
    /\ AppInit
    /\ StoreInit
    /\ FileIdle
    /\ PipeIdle
    /\ QueryIdle
    /\ TransIdle
    /\ ConcIdle

NextApp ==
    \/ app
    \/ setupDatabase
    \/ setupSearch
    \/ routing

SpecApp == InitApp /\ [][NextApp]_vars

InitFile ==
    /\ opts = AllOptions
    /\ AppInit
    /\ StoreInit
    /\ FileIdle
    /\ PipeIdle
    /\ QueryIdle
    /\ TransIdle
    /\ ConcIdle

NextFile ==
    \/ receive
    \/ fileLookup
    \/ crateLookup
    \/ fileHead
    \/ fileGet
    \/ crateHead
    \/ crateGet

SpecFile == InitFile /\ [][NextFile]_vars

InitPipe ==
    /\ opts = AllOptions
    /\ AppInit
    /\ StoreInit
    /\ FileIdle
    /\ PipeIdle
    /\ QueryIdle
    /\ TransIdle
    /\ ConcIdle

NextPipe ==
    \/ receivePipe
    \/ errorRoute
    \/ entityLookup
    \/ entityResolve
    \/ entitiesFindMany
    \/ entitiesCount
    \/ filesFindMany
    \/ filesCount
    \/ searchQuery
    \/ searchFindMany
    \/ \E i \in TaskIds : settle(i)
    \/ reject
    \/ respond

SpecPipe == InitPipe /\ [][NextPipe]_vars

\* the list routes while the ingestion pipeline works on the store
NextIngest ==
    \/ receivePipe
    \/ entitiesFindMany
    \/ entitiesCount
    \/ filesFindMany
    \/ filesCount
    \/ \E i \in TaskIds : settle(i)
    \/ reject
    \/ respond
    \/ ingest

SpecIngest == InitPipe /\ [][NextIngest]_vars

InitQuery ==
    /\ opts = AllOptions
    /\ AppInit
    /\ StoreInit
    /\ FileIdle
    /\ PipeIdle
    /\ TransIdle
    /\ ConcIdle
    /\ sBody = NoSearchBody
    /\ lArgs = NoListArgs
    /\ \/ sParams \in SearchParams /\ lParams = NoListParams
       \/ sParams = NoSearchParams /\ lParams \in EntitiesParams \cup FilesParams

NextQuery ==
    \/ opensearchQuery
    \/ findManyArgs

SpecQuery == InitQuery /\ [][NextQuery]_vars

InitTransform ==
    /\ opts = AllOptions
    /\ AppInit
    /\ StoreInit
    /\ FileIdle
    /\ PipeIdle
    /\ QueryIdle
    /\ ConcIdle
    /\ tRefs = NoRefs
    /\ tOnce = NoObject
    /\ tTwice = NoObject
    /\ \/ tBatch \in Batches /\ tEntity = NoObject
       \/ tBatch = <<>> /\ tEntity \in EntityObjects

NextTransform ==
    \/ resolve
    \/ transform
    \/ transformAgain

SpecTransform == InitTransform /\ [][NextTransform]_vars

InitConc ==
    /\ opts = AllOptions
    /\ AppInit
    /\ StoreInit
    /\ FileIdle
    /\ PipeIdle
    /\ QueryIdle
    /\ TransIdle
    /\ ConcIdle

NextConc ==
    \E a \in Activations :
        \/ arrive(a)
        \/ read(a)
        \/ invoke(a)
        \/ answer(a)

SpecConc == InitConc /\ [][NextConc]_vars

(***************************************************************************)
(* Properties of registration (SpecApp)                                    *)
(***************************************************************************)
Called(c) == \E i \in 1..Len(regCalls) : regCalls[i] = c

MissingRequired ==
    \/ ~opts.accessTransformer
    \/ ~opts.fileAccessTransformer
    \/ ~opts.fileHandler
    \/ ~opts.roCrateHandler

Did(c) == \E i \in 1..Len(fCalls) : fCalls[i] = c

IsError(reply, status, code) ==
    /\ reply.status = status
    /\ reply.body.kind = "error"
    /\ reply.body.code = code

FileGetRedirected ==
    /\ fPc = "done"
    /\ fReq.route = "file" /\ fReq.method = "GET"
    /\ fResult.type = "redirect"

Is302To(reply, url) ==
    /\ reply.status = 302
    /\ reply.headers.Location = url

IsLocationJson(reply, url) ==
    /\ reply.status = 200
    /\ reply.body = JsonLocation(url)
    /\ reply.headers.Location = None

\* C5: GET /file/:id with a redirect result: ?noRedirect=true gives 200 with
\* the JSON body {location: url}; a request without the parameter gives 302
\* with Location equal to url.
C5_RedirectOrLocationJson ==
    FileGetRedirected =>
        /\ (fReq.noRedirect = "true" => IsLocationJson(fReply, fResult.url))
        /\ (fReq.noRedirect = Absent => Is302To(fReply, fResult.url))

C5_Witness ==
    /\ FileGetRedirected
    /\ fReq.noRedirect = "true"
    /\ IsLocationJson(fReply, fResult.url)

\* C6: GET /file/:id with a redirect result answers 302 with a Location
\* header whenever noRedirect is absent or is given as false
\* (?noRedirect=false).
C6_FalseFlagStillRedirects ==
    (FileGetRedirected /\ fReq.noRedirect \in {Absent, "false"}) =>
        Is302To(fReply, fResult.url)

CrateGetRedirected ==
    /\ fPc = "done"
    /\ fReq.route = "crate" /\ fReq.method = "GET"
    /\ fResult.type = "redirect"

\* C7 as stated: GET /entity/:id/rocrate treats a redirect result as
\* GET /file/:id does: 200 with {location: url} when the request carries
\* noRedirect=true, 302 with Location otherwise.
C7_CrateHonoursNoRedirect ==
    CrateGetRedirected =>
        IF fReq.noRedirect = "true"
          THEN IsLocationJson(fReply, fResult.url)
          ELSE Is302To(fReply, fResult.url)

\* C7 amended: GET /entity/:id/rocrate answers every redirect result with 302
\* and Location equal to url and an empty body, whatever noRedirect value the
\* query string carries.
C7_CrateAlwaysRedirects ==
    CrateGetRedirected =>
        /\ Is302To(fReply, fResult.url)
        /\ fReply.body = EmptyBody

C7_Witness ==
    /\ CrateGetRedirected
    /\ fReq.noRedirect = "true"
    /\ Is302To(fReply, fResult.url)

\* the headers setFileHeaders derives from well-formed metadata m
MetadataHeadersSet(h, m, contentType) ==
    /\ h.ContentType = contentType
    /\ h.ContentLength = ToString(m.contentLength)
    /\ h.ETag = m.etag
    /\ h.LastModified = (IF m.lastModified = None THEN None ELSE toUTCString(m.lastModified))

GetFilePath ==
    /\ fPc = "done"
    /\ fReq.method = "GET"
    /\ fResult.type = "file"
    /\ WellFormed(fResult.metadata)

HeadTouchesNoContent ==
    /\ ~Did("get")
    /\ ~Did("createReadStream")
    /\ fStream = "none"
    /\ fReply.body.kind # "stream"

C10_NoStreamLeftOpen ==
    (fPc = "done" /\ (fResult.type = "stream" \/ Did("createReadStream"))) =>
        fStream \in {"sent", "closed"}

(***************************************************************************)
(* Properties of the transformer pipeline (SpecPipe)                       *)
(***************************************************************************)
Items == pReply.body.items

\* the tasks whose result is part of the response, in order
RECURSIVE Returned(_, _)
Returned(ts, i) ==
    IF i > Len(ts) THEN <<>>
    ELSE (IF ts[i].status = "skipped" THEN <<>> ELSE <<i>>) \o Returned(ts, i + 1)

\* the invocations of one record's pipeline so far form the chain
\* access, extra 1, extra 2, ...: stage k is the k-th invocation, so no stage
\* is invoked twice; the access transformer got the output of the base stage;
\* every later stage was invoked only once its predecessor had returned, and
\* on what the predecessor returned
StagesInOrder(t) ==
    /\ Len(t.invoked) = t.stage
    /\ \A k \in 1..Len(t.invoked) : t.invoked[k].stage = k
    /\ t.invoked[1].input.stages = <<0>>
    /\ Len(t.outs) \in {Len(t.invoked) - 1, Len(t.invoked)}
    /\ \A k \in 2..Len(t.invoked) : t.invoked[k].input = t.outs[k - 1]
    /\ \A k \in 1..Len(t.outs) : t.outs[k].stages = Append(t.invoked[k].input.stages, k)

\* the response element item is what the last stage of t returned (next to
\* the searchExtra sibling that /search adds)
HoldsLastOutput(item, t) ==
    /\ t.status = "done"
    /\ Len(t.outs) = LastStage
    /\ \A f \in DOMAIN t.outs[LastStage] \ {"searchExtra"} : item[f] = t.outs[LastStage][f]
    /\ pReq.route # "search" => item = t.outs[LastStage]

\* C1: for every record, on all four routes, the stages run in the order
\* base, access, extras in list order, each started on the output of the
\* stage before it and only after that stage returned, the access transformer
\* exactly once; and every element of a 200 response is the output of the
\* last stage of its record's pipeline.
C1_StagesSequentialPerRecord ==
    /\ \A i \in TaskIds : pTasks[i].stage > 0 => StagesInOrder(pTasks[i])
    /\ pReply.status = 200 =>
         LET ret == Returned(pTasks, 1) IN
         /\ Len(Items) = Len(ret)
         /\ \A j \in 1..Len(ret) : HoldsLastOutput(Items[j], pTasks[ret[j]])

C1_Witness ==
    /\ pReply.status = 200
    /\ pReq.route = "entities"
    /\ Len(Items) = 2
    /\ \A j \in 1..2 : Len(Items[j].stages) = LastStage + 1

StoredEntity(id) == CHOOSE e \in entities : e.rocrateId = id

\* what a stored memberOf / rootCollection must come out as
Resolved(s) ==
    IF s = Null THEN NullRef
    ELSE IF \E e \in entities : e.rocrateId = s
      THEN EntityReference(s, StoredEntity(s).name)
      ELSE NullRef

\* C3: in every entity returned by /entity/:id, /entities or /search,
\* memberOf and rootCollection are null when the stored value is null or names
\* no stored record, and otherwise the {id, name} of the referenced record;
\* never the raw identifier.
C3_ReferencesResolved ==
    (pReply.status = 200 /\ pReq.route \in {"entity", "entities", "search"}) =>
        \A j \in 1..Len(Items) :
            /\ Items[j].memberOf = Resolved(StoredEntity(Items[j].id).memberOf)
            /\ Items[j].rootCollection = Resolved(StoredEntity(Items[j].id).rootCollection)

(***************************************************************************)
(* Properties of the list and search routes (SpecPipe)                     *)
(***************************************************************************)
ListRoutes == {"entities", "files"}

\* the fields the base transformer gives the record row of the request's route
BaseOf(row) ==
    IF pReq.route = "files" THEN baseFileTransformer(row) ELSE baseEntityTransformer(row)

\* item is a transformed form of row: it has the fields of the row's base shape
TransformedFrom(item, row) ==
    \A f \in DOMAIN BaseOf(row) \ {"stages"} : item[f] = BaseOf(row)[f]

\* C11: on /entities and /files every record's pipeline has been started as
\* soon as any has (none waits for another to return), and whatever the order
\* in which the pipelines return, element i of the response is the transformed
\* form of record i of the store's answer; on /search the returned entities
\* follow the order of their hits.
C11_ResponseKeepsRecordOrder ==
    /\ (pReq.route \in ListRoutes /\ pPc = "run") =>
          /\ Len(pTasks) = Len(pRows)
          /\ \A i \in TaskIds : Len(pTasks[i].invoked) >= 1
    /\ (pReq.route \in ListRoutes /\ pReply.status = 200) =>
          /\ Len(Items) = Len(pRows)
          /\ \A i \in 1..Len(pRows) :
                TransformedFrom(Items[i], pRows[i]) /\ Items[i] = pTasks[i].value
    /\ (pReq.route = "search" /\ pReply.status = 200) =>
          LET ret == Returned(pTasks, 1) IN
          /\ Len(Items) = Len(ret)
          /\ \A j \in 1..Len(ret) :
                /\ Items[j].id = pRows[ret[j]].rocrateId
                /\ Items[j].searchExtra.score = pRows[ret[j]].score
          /\ \A j, k \in 1..Len(ret) : j < k => ret[j] < ret[k]

\* a page of at least two records whose second pipeline returned first
C11_Witness ==
    /\ pReq.route \in ListRoutes
    /\ pReply.status = 200
    /\ Len(Items) >= 2
    /\ pTasks[2].finished = 1
    /\ pTasks[1].finished > 1

\* a transformer of record i threw
TransformerThrew(i) == pTasks[i].status = "failed" /\ pTasks[i].stage >= 1

GenericMessage == IF pReq.route = "search" THEN "Search failed" ELSE DefaultInternalMessage

\* C12: once a transformer has thrown for some record of a /entities, /files
\* or /search request, the finished request has answered 500 INTERNAL_ERROR
\* without any array of entities or files, and the stage that threw was
\* invoked once only.
C12_OneFailureFailsTheRequest ==
    (pPc = "done" /\ pReq.route \in ListRoutes \cup {"search"}
       /\ \E i \in TaskIds : TransformerThrew(i)) =>
        /\ pReply = ErrorReply(500, createInternalError(GenericMessage))
        /\ Items = <<>>
        /\ \A i \in TaskIds :
              TransformerThrew(i) =>
                /\ Len(pTasks[i].invoked) = pTasks[i].stage
                /\ \A k \in 1..Len(pTasks[i].invoked) : pTasks[i].invoked[k].stage = k

\* an extra transformer threw for one record while another record's pipeline
\* returned
C12_Witness ==
    /\ pPc = "done"
    /\ pReq.route = "entities"
    /\ pReply.status = 500
    /\ \E i, j \in TaskIds :
         /\ TransformerThrew(i) /\ pTasks[i].stage >= 2
         /\ pTasks[j].status = "done"

\* the number a limit or offset value of the request denotes
Denotes(raw) == IF pReq.route = "search" THEN JsonNumber(raw) ELSE Number(raw)

AllowedSort ==
    CASE pReq.route = "entities" -> {"id", "name", "createdAt", "updatedAt"}
      [] pReq.route = "files" -> {"id", "filename", "createdAt", "updatedAt"}
      [] OTHER -> {"id", "name", "createdAt", "updatedAt", "relevance"}

\* limit outside 1..1000, negative offset, or a sort / order outside its enum
OutOfBounds ==
    \/ pReq.limit # Absent /\ Denotes(pReq.limit).kind = "int"
         /\ (Denotes(pReq.limit).n < 1 \/ Denotes(pReq.limit).n > 1000)
    \/ pReq.offset # Absent /\ Denotes(pReq.offset).kind = "int" /\ Denotes(pReq.offset).n < 0
    \/ pReq.sort # Absent /\ pReq.sort \notin AllowedSort
    \/ pReq.order # Absent /\ pReq.order \notin {"asc", "desc"}

\* C13: a /entities, /files or /search request whose limit is outside 1..1000,
\* whose offset is negative or whose sort or order is not an allowed value is
\* answered 400 VALIDATION_ERROR, and no store or search-engine operation is
\* ever issued for it.
C13_InvalidRequestRejectedFirst ==
    (pReq.route \in ListRoutes \cup {"search"} /\ OutOfBounds) =>
        /\ pPc = "done"
        /\ pReply.status = 400
        /\ pReply.body.code = "VALIDATION_ERROR"
        /\ pCalls = <<>>
        /\ pTasks = <<>>

C13_Witness ==
    /\ pReq.route = "entities"
    /\ pReq.limit = "0"
    /\ pReq.offset = "-1"
    /\ pReply.status = 400
    /\ pCalls = <<>>

\* C14: every response with status 400, 404 or 500 has the body
\* {error: {code, message, details?}} with code one of the five error codes.
C14_ErrorsUseEnvelope ==
    pReply.status \in {400, 404, 500} =>
        /\ pReply.body.kind = "error"
        /\ pReply.body.code \in ERROR_CODES

\* C15: the body of a 500 response is fixed by the route alone, whatever the
\* message of the exception behind it.
C15_InternalErrorBodyIsGeneric ==
    pReply.status = 500 =>
        pReply.body = ErrorReply(500, createInternalError(GenericMessage)).body

\* the hits the store has no record for
IsGhost(hit) == hit.rocrateId # Undef /\ ~\E e \in entities : e.rocrateId = hit.rocrateId

Warned(id) == \E k \in 1..Len(pLog) : pLog[k] = [level |-> "warn", text |-> id]

RECURSIVE StoredHits(_, _)
\* the positions, from i on, of the hits that have a store record
StoredHits(hits, i) ==
    IF i > Len(hits) THEN <<>>
    ELSE (IF hits[i].rocrateId = Undef \/ IsGhost(hits[i]) THEN <<>> ELSE <<i>>)
         \o StoredHits(hits, i + 1)

\* C16: a finished /search request all of whose hits carry an identifier and
\* none of whose transformers threw has answered 200 with exactly the hits
\* that have a store record, in order, and has logged one warning for every
\* hit that has none.
C16_DriftedHitDropped ==
    (pReq.route = "search" /\ pPc = "done" /\ pTasks # <<>>
       /\ (\A h \in 1..Len(pRows) : pRows[h].rocrateId # Undef)
       /\ (\A i \in TaskIds : ~TransformerThrew(i))) =>
        LET kept == StoredHits(pRows, 1) IN
        /\ pReply.status = 200
        /\ Len(Items) = Len(kept)
        /\ \A j \in 1..Len(kept) : Items[j].id = pRows[kept[j]].rocrateId
        /\ \A i \in 1..Len(pRows) : IsGhost(pRows[i]) => Warned(pRows[i].rocrateId)
        /\ Len(pLog) = Len(pRows) - Len(kept)

C16_Witness ==
    /\ pReq.route = "search"
    /\ pReply.status = 200
    /\ Len(pRows) = 2
    /\ IsGhost(pRows[1])
    /\ Len(Items) = 1
    /\ Items[1].id = "o1"
    /\ Warned("ghost")

LoggedError(text) == \E k \in 1..Len(pLog) : pLog[k] = [level |-> "error", text |-> text]

\* C17: a finished /search request whose engine response had no hits array,
\* or had a hit without identifier, has answered 500 INTERNAL_ERROR with the
\* message 'Search failed'.
C17_MalformedEngineResponseFails ==
    (pReq.route = "search" /\ pPc = "done"
       /\ (\/ LoggedError("Invalid search response: missing hits data")
           \/ \E i \in 1..Len(pRows) : pRows[i].rocrateId = Undef)) =>
        /\ pReply = ErrorReply(500, createInternalError("Search failed"))
        /\ Items = <<>>

C17_Witness ==
    /\ pReq.route = "search"
    /\ pPc = "done"
    /\ Len(pRows) = 2
    /\ pRows[1].rocrateId = "o1"
    /\ pRows[2].rocrateId = Undef
    /\ Len(pTasks) = 2
    /\ pReply.status = 500
    /\ pReply.body.message = "Search failed"

\* C18: every entity /search returns is the pipeline output for the record of
\* its hit, every field of that output unchanged, next to a searchExtra field
\* with the hit's score and highlight.
C18_SearchExtraIsSibling ==
    (pReq.route = "search" /\ pReply.status = 200) =>
        LET ret == Returned(pTasks, 1) IN
        \A j \in 1..Len(ret) :
            LET t == pTasks[ret[j]] IN
            /\ t.value.id = t.hit.rocrateId
            /\ Items[j].searchExtra = [score |-> t.hit.score, highlight |-> None]
            /\ \A f \in DOMAIN t.value : Items[j][f] = t.value[f]

(***************************************************************************)
(* Properties of the compiled search request (SpecQuery)                   *)
(***************************************************************************)
Compiled == sBody.index = "entities"

Must == sBody.query.bool.must
Filter == sBody.query.bool.filter

IsTerms(c) == "terms" \in DOMAIN c
IsGeo(c) == "geo_bounding_box" \in DOMAIN c

\* the filter fields the request names
Requested == IF sParams.filters.present THEN sParams.filters.entries ELSE <<>>

\* C19: the compiled bool query has exactly one must clause, multi_match with
\* fuzziness AUTO (basic) or query_string with default operator AND
\* (advanced), over name^2 and description; the filter list holds one terms
\* clause per requested filter field, with that field's values, and the
\* bounding-box clause when a box was given; must holds no such clause.
C19_FiltersNeverInMust ==
    Compiled =>
        /\ Len(Must) = 1
        /\ sParams.searchType = "basic" =>
              Must[1] = [multi_match |-> [query |-> sParams.query, fields |-> <<"name^2", "description">>,
                                         type |-> "best_fields", fuzziness |-> "AUTO"]]
        /\ sParams.searchType = "advanced" =>
              Must[1] = [query_string |-> [query |-> sParams.query, fields |-> <<"name^2", "description">>,
                                          default_operator |-> "AND"]]
        /\ \A k \in 1..Len(Must) : ~IsTerms(Must[k]) /\ ~IsGeo(Must[k])
        /\ \A e \in 1..Len(Requested) :
              Cardinality({k \in 1..Len(Filter) :
                             IsTerms(Filter[k]) /\ Filter[k].terms.field = Requested[e].field}) = 1
        /\ \A k \in 1..Len(Filter) :
              IsTerms(Filter[k]) =>
                \E e \in 1..Len(Requested) :
                    Filter[k].terms = [field |-> Requested[e].field, values |-> Requested[e].values]
        /\ Cardinality({k \in 1..Len(Filter) : IsGeo(Filter[k])})
             = IF sParams.boundingBox.present THEN 1 ELSE 0
        /\ \A k \in 1..Len(Filter) : IsTerms(Filter[k]) \/ IsGeo(Filter[k])

C19_Witness ==
    /\ Compiled
    /\ sParams.searchType = "advanced"
    /\ Len(Requested) = 2
    /\ sParams.boundingBox.present
    /\ Len(Filter) = 3

\* C20: the compiled geo_bounding_box has top_left = (lat of topRight, lon of
\* bottomLeft) and bottom_right = (lat of bottomLeft, lon of topRight); for
\* topRight (51.5, 0.1) and bottomLeft (51.4, 0.0) that is top_left
\* (51.5, 0.0) and bottom_right (51.4, 0.1).
C20_BoundingBoxCorners ==
    (Compiled /\ sParams.boundingBox.present) =>
        \A k \in 1..Len(Filter) :
            IsGeo(Filter[k]) =>
                LET loc == Filter[k].geo_bounding_box.location
                    box == sParams.boundingBox
                IN /\ loc.top_left = [lat |-> box.topRight.lat, lon |-> box.bottomLeft.lng]
                   /\ loc.bottom_right = [lat |-> box.bottomLeft.lat, lon |-> box.topRight.lng]
                   /\ box = Box(Point(515, 1), Point(514, 0)) =>
                         /\ loc.top_left = [lat |-> 515, lon |-> 0]
                         /\ loc.bottom_right = [lat |-> 514, lon |-> 1]

C20_Witness ==
    /\ Compiled
    /\ sParams.searchType = "basic"
    /\ sParams.boundingBox = Box(Point(515, 1), Point(514, 0))
    /\ \E k \in 1..Len(Filter) : IsGeo(Filter[k])

\* C21: whichever corner of the box the caller labelled topRight, the compiled
\* geo filter has top_left north-west of bottom_right: top_left.lat >=
\* bottom_right.lat and top_left.lon <= bottom_right.lon.
C21_CornersNormalised ==
    (Compiled /\ sParams.boundingBox.present) =>
        \A k \in 1..Len(Filter) :
            IsGeo(Filter[k]) =>
                LET loc == Filter[k].geo_bounding_box.location IN
                /\ loc.top_left.lat >= loc.bottom_right.lat
                /\ loc.top_left.lon <= loc.bottom_right.lon

GeohashGrid == sBody.aggs.geohash_grid

\* C22: the compiled request has a geohash_grid aggregation exactly when the
\* request has a bounding box (a validated request always has a precision,
\* 0..12, default 5); when present it has the request's precision and the
\* corners of the geo filter.
C22_GeohashGridIffBox ==
    Compiled =>
        /\ GeohashGrid.present <=> sParams.boundingBox.present
        /\ GeohashGrid.present =>
              /\ GeohashGrid.precision = sParams.geohashPrecision
              /\ \A k \in 1..Len(Filter) :
                    IsGeo(Filter[k]) => GeohashGrid.bounds = Filter[k].geo_bounding_box.location

ListCompiled == lArgs.model # None

\* the store field a sort key of the list routes stands for
BackingField(route, sort) ==
    IF sort = "id" THEN (IF route = "entities" THEN "rocrateId" ELSE "fileId") ELSE sort

\* C23: /search compiles sort 'relevance' to no sort clause, 'id' to
\* rocrateId, 'name' to name.keyword, createdAt / updatedAt to themselves,
\* with the requested order; /entities and /files order by rocrateId and
\* fileId for 'id' and by the field of the same name otherwise.
C23_SortKeysMapToFields ==
    /\ Compiled =>
         sBody.sort =
            CASE sParams.sort = "relevance" -> <<>>
              [] sParams.sort = "id" -> <<[field |-> "rocrateId", order |-> sParams.order]>>
              [] sParams.sort = "name" -> <<[field |-> "name.keyword", order |-> sParams.order]>>
              [] OTHER -> <<[field |-> sParams.sort, order |-> sParams.order]>>
    /\ ListCompiled =>
         lArgs.orderBy = [field |-> BackingField(lParams.route, lParams.sort),
                          order |-> lParams.order]

C23_Witness ==
    /\ ListCompiled
    /\ lParams.route = "files"
    /\ lParams.sort = "id"
    /\ lParams.order = "desc"
    /\ lArgs.orderBy.field = "fileId"

(***************************************************************************)
(* Properties of the store (SpecPipe, SpecIngest)                          *)
(***************************************************************************)
\* the operations that read the store or the index
ReadOperations ==
    {"entity.findFirst", "entity.findMany", "entity.findMany(refs)", "entity.count",
     "file.findFirst", "file.findMany", "file.count", "opensearch.search"}

\* the calls that go to a content handler or the file system, not the store
DeliveryCalls == {"get", "head", "createReadStream"}

C28_PageWithinTotal ==
    (pReq.route \in ListRoutes /\ pReply.status = 200) =>
        Len(Items) <= pReply.body.total

\* C29: once a /entities, /files or /search request has been answered 500
\* because a pipeline threw, no transformer is invoked for it any more.
C29_NoInvocationAfterFailure ==
    [][(pPc = "done" /\ pReply.status = 500 /\ pTasks # <<>>) =>
          \A i \in TaskIds : pTasks'[i].invoked = pTasks[i].invoked]_vars

(***************************************************************************)
(* Headers of a failed download (SpecFile)                                 *)
(***************************************************************************)
\* the headers that setFileHeaders and the 'stream' / 'file' branches derive
\* from the handler's result
ResultHeadersUnset(h) ==
    /\ h.ContentType = None
    /\ h.ContentLength = None
    /\ h.ETag = None
    /\ h.LastModified = None
    /\ h.ContentDisposition = <<>>
    /\ h.XAccelRedirect = None

\* C30: a 500 response of GET /file/:id or GET /entity/:id/rocrate carries
\* none of Content-Type, Content-Length, ETag, Last-Modified,
\* Content-Disposition and X-Accel-Redirect, whichever step failed.
C30_FailedDownloadHasNoResultHeaders ==
    (fPc = "done" /\ fReq.method = "GET" /\ fReply.status = 500) =>
        ResultHeadersUnset(fReply.headers)

(***************************************************************************)
(* Properties of requests handled at the same time (SpecConc)              *)
(***************************************************************************)
\* the response request q gets when it is the only request
Alone(q) ==
    [status |-> 200,
     items |-> [k \in 1..Len(rowsOf(q)) |->
                  [record |-> rowsOf(q)[k], grantedTo |-> q.user]]]

\* C25: under any interleaving of the requests in flight, every transformer
\* and content-handler invocation is given the request of the activation
\* whose record it processes, and a response is the one its request gets
\* when handled alone.
C25_OwnContextOnly ==
    \A a \in Activations :
        /\ \A k \in 1..Len(cInvoked[a]) :
              /\ cInvoked[a][k].ctx.request = cReq[a]
              /\ cInvoked[a][k].record = rowsOf(cReq[a])[k]
        /\ (cPc[a] = "done" => cReply[a] = Alone(cReq[a]))

\* one request was answered while another one, of a different caller on a
\* different route, is between two of its invocations
C25_Witness ==
    /\ cPc[1] = "done"
    /\ cReply[1].items # <<>>
    /\ cPc[2] = "run"
    /\ Len(cInvoked[2]) >= 1
    /\ Len(cInvoked[2]) < Len(cRows[2])
    /\ cReq[1].user # cReq[2].user
    /\ cReq[1].route # cReq[2].route

(***************************************************************************)
(* Properties of the transformer functions (SpecTransform)                 *)
(***************************************************************************)
\* the distinct non-null memberOf / rootCollection values of a batch
Wanted(batch) ==
    ({batch[i].memberOf : i \in 1..Len(batch)}
       \cup {batch[i].rootCollection : i \in 1..Len(batch)}) \ {Null}

InStore(id) == \E e \in entities : e.rocrateId = id

OwnedFields ==
    {"id", "name", "description", "entityType", "memberOf", "rootCollection",
     "metadataLicenseId", "contentLicenseId"}

\* C27: the base entity transformer applied to its own output returns an
\* object that equals that output on every field the base stage owns.
C27_BaseIsIdempotent ==
    tTwice # NoObject =>
        \A f \in OwnedFields : Get(tTwice, f) = Get(tOnce, f)

====
